---- MODULE Spec2Model ----
(***************************************************************************)
(* Model of the personal-trainer frontend's API client (services/api) and  *)
(* of the customer-list and training-list handlers that call it.           *)
(*                                                                         *)
(* JavaScript strings are sequences of one-character strings, so that      *)
(* split('/'), startsWith('http') and template concatenation are computed  *)
(* as the code computes them.  null and undefined are the two one-element  *)
(* sequences Null and Undefined, which no character sequence equals.       *)
(***************************************************************************)
EXTENDS Integers, Sequences, FiniteSets

----------------------------------------------------------------------------
(* Bounds of the model *)

\* the server hands out ids up to MaxId and then accepts no further create
MaxId == 4

\* at most MaxCalls operations that issue requests are started in a run
MaxCalls == 2

\* at most MaxPending lazy customer fetches are in flight at a time
MaxPending == 2

\* at most MaxFetching list fetches are in flight at a time
MaxFetching == 2

----------------------------------------------------------------------------
(* JavaScript values *)

Null == <<"null">>
Undefined == <<"undefined">>
EmptyStr == <<>>

\* truthiness of a value that is a string, null or undefined
Truthy(s) == s # Null /\ s # Undefined /\ s # EmptyStr

IsString(s) == s # Null /\ s # Undefined

\* the element of the one-element set S; {e : x \in {d}} is e with x the value
\* of d, computed once
The(S) == CHOOSE x \in S : TRUE

Slash == <<"/">>

\* String.prototype.startsWith
StartsWith(s, p) == Len(s) >= Len(p) /\ SubSeq(s, 1, Len(p)) = p

\* the literal 'http' of the startsWith tests
HttpPrefix == <<"h", "t", "t", "p">>

\* String.prototype.split('/'): the segments between the slashes
RECURSIVE SplitFrom(_, _, _)
SplitFrom(s, i, cur) ==
    IF i > Len(s) THEN <<cur>>
    ELSE IF s[i] = "/" THEN <<cur>> \o SplitFrom(s, i + 1, <<>>)
    ELSE SplitFrom(s, i + 1, Append(cur, s[i]))

Split(s) == SplitFrom(s, 1, <<>>)

\* the template literal `${a}/${b}`
Join(a, b) == a \o Slash \o b

DigitChars == <<"0", "1", "2", "3", "4", "5", "6", "7", "8", "9">>

\* Number.prototype.toString for a natural number
RECURSIVE NumToString(_)
NumToString(n) ==
    IF n < 10 THEN <<DigitChars[n + 1]>>
    ELSE NumToString(n \div 10) \o <<DigitChars[(n % 10) + 1]>>

IsDigit(c) == \E d \in 1..10 : DigitChars[d] = c

DigitValue(c) == (CHOOSE d \in 1..10 : DigitChars[d] = c) - 1

IsNumeral(s) == s # <<>> /\ \A i \in 1..Len(s) : IsDigit(s[i])

RECURSIVE ParseNat(_)
ParseNat(s) ==
    IF Len(s) = 1 THEN DigitValue(s[1])
    ELSE 10 * ParseNat(SubSeq(s, 1, Len(s) - 1)) + DigitValue(s[Len(s)])

----------------------------------------------------------------------------
(* API configuration and endpoints *)

\* API_BASE_URL, with the host name shortened to "h"
API_BASE_URL ==
    <<"h", "t", "t", "p", "s", ":", "/", "/", "h", "/", "a", "p", "i">>

\* the base the server may use instead in the links it generates (the same
\* service reached over plain http)
ALT_BASE_URL ==
    <<"h", "t", "t", "p", ":", "/", "/", "h", "/", "a", "p", "i">>

SegCustomers == <<"c", "u", "s", "t", "o", "m", "e", "r", "s">>
SegTrainings == <<"t", "r", "a", "i", "n", "i", "n", "g", "s">>
SegGetTrainings == <<"g", "e", "t">> \o SegTrainings
SegReset == <<"r", "e", "s", "e", "t">>

\* the last segment of a training's customer relation address
SegCustomer == <<"c", "u", "s", "t", "o", "m", "e", "r">>

ENDPOINTS ==
    [customers |-> Join(API_BASE_URL, SegCustomers),
     trainings |-> Join(API_BASE_URL, SegTrainings),
     getTrainings |-> Join(API_BASE_URL, SegGetTrainings),
     reset |-> Join(API_BASE_URL, SegReset)]

----------------------------------------------------------------------------
(* Identity resolver *)

extractIdFromUrl_NoEmptyCheck(url) ==
    IF ~Truthy(url) THEN Null
    ELSE The({ parts[Len(parts)] : parts \in {Split(url)} })

\* extractIdFromUrl: the last '/'-separated part of url, or null
extractIdFromUrl(url) ==
    IF ~Truthy(url) THEN Null
    ELSE The({ IF parts[Len(parts)] # EmptyStr THEN parts[Len(parts)] ELSE Null :
                 parts \in {Split(url)} })

\* a links object: absent altogether, or holding the relation addresses
\* (an href the object does not hold reads as undefined)
NoLinks ==
    [present |-> FALSE, self |-> Undefined, customer |-> Undefined,
     other |-> Undefined]

MkLinks(self, customer, other) ==
    [present |-> TRUE, self |-> self, customer |-> customer, other |-> other]

\* a numeric id is <<n>>, an absent id is <<>>
NoId == <<>>

HasId(e) == e.id # NoId

\* a Customer of types/index.ts; hal is the raw _links block that only a
\* document returned unnormalized by response.json() carries
MkCustomer(id, attrs, links) ==
    [id |-> id, attrs |-> attrs, links |-> links, hal |-> NoLinks]

\* getCustomerId(customer: Customer | string): isString tells which of the
\* two the argument is
getCustomerId(isString, str, customer) ==
    IF isString THEN extractIdFromUrl(str)
    ELSE IF Truthy(customer.links.self)
         THEN extractIdFromUrl(customer.links.self)
    ELSE IF Truthy(customer.links.customer)
         THEN extractIdFromUrl(customer.links.customer)
    ELSE Null

----------------------------------------------------------------------------
(* The backend (external collaborator): a store of customers and trainings *)
(* behind the REST/HAL endpoints the client calls                          *)

\* the domain attributes of a customer
CustomerOf(email, phone) ==
    [firstname |-> "Ann", lastname |-> "Lee", streetaddress |-> "1 Main St",
     postcode |-> "00100", city |-> "Espoo", email |-> email, phone |-> phone]

\* the customers of the model: phone is an attribute that takes no part in
\* the attribute match
CustomerAttrs ==
    { CustomerOf("ann@x", "1"), CustomerOf("ann@x", "2"), CustomerOf("bob@x", "1") }

TrainingAttrs ==
    { [date |-> "2024-01-01T10:00:00Z", duration |-> 60, activity |-> "Yoga"],
      [date |-> "2024-01-01T10:00:00Z", duration |-> 60, activity |-> "Zumba"] }

\* the dataset POST /reset restores.  Customer 2 is served without _links
\* and the trainings are served in the shapes the client provides for:
\* flat (numeric id), HAL (links only), both
DefaultCustomers ==
    << [id |-> 1, linked |-> TRUE,
        attrs |-> CustomerOf("ann@x", "1")],
       [id |-> 2, linked |-> FALSE,
        attrs |-> CustomerOf("bob@x", "1")] >>

DefaultTrainings ==
    << [id |-> 1, shape |-> "flat", cust |-> 1,
        attrs |-> [date |-> "2024-01-01T10:00:00Z", duration |-> 60, activity |-> "Yoga"]],
       [id |-> 2, shape |-> "hal", cust |-> 1,
        attrs |-> [date |-> "2024-01-01T10:00:00Z", duration |-> 60, activity |-> "Yoga"]],
       [id |-> 3, shape |-> "both", cust |-> 2,
        attrs |-> [date |-> "2024-01-01T10:00:00Z", duration |-> 60, activity |-> "Yoga"]] >>

\* w is the backend's state: cdb and tdb its customers and trainings, nid
\* the next id it hands out, lb the base address it writes into links
DefaultWorld(lb) ==
    [cdb |-> DefaultCustomers, tdb |-> DefaultTrainings, nid |-> Len(DefaultTrainings) + 1,
     lb |-> lb]

\* the resource a request address names: coll is the collection, id the
\* record (0 for the collection itself); coll "none" is answered 404
RouteSegs(segs) ==
    IF segs[1] \notin {SegCustomers, SegTrainings, SegGetTrainings, SegReset}
    THEN [coll |-> "none", id |-> 0]
    ELSE The({ IF Len(segs) = 1 THEN [coll |-> coll, id |-> 0]
               ELSE IF Len(segs) = 2 /\ IsNumeral(segs[2])
                       /\ coll \in {"customers", "trainings"}
                    THEN [coll |-> coll, id |-> ParseNat(segs[2])]
               ELSE IF Len(segs) = 3 /\ IsNumeral(segs[2]) /\ coll = "trainings"
                       /\ segs[3] = SegCustomer
                    THEN [coll |-> "trainingcustomer", id |-> ParseNat(segs[2])]
               ELSE [coll |-> "none", id |-> 0] :
               coll \in { IF segs[1] = SegCustomers THEN "customers"
                          ELSE IF segs[1] = SegTrainings THEN "trainings"
                          ELSE IF segs[1] = SegGetTrainings THEN "gettrainings"
                          ELSE "reset" } })

Route(url) ==
    IF StartsWith(url, API_BASE_URL \o Slash)
    THEN The({ RouteSegs(segs) :
               segs \in {Split(SubSeq(url, Len(API_BASE_URL) + 2, Len(url)))} })
    ELSE IF StartsWith(url, ALT_BASE_URL \o Slash)
    THEN The({ RouteSegs(segs) :
               segs \in {Split(SubSeq(url, Len(ALT_BASE_URL) + 2, Len(url)))} })
    ELSE [coll |-> "none", id |-> 0]

HasRecord(db, id) == \E i \in 1..Len(db) : db[i].id = id

RecordOf(db, id) == db[CHOOSE i \in 1..Len(db) : db[i].id = id]

\* the _links block the server writes for customer id
CustomerHal(w, id) ==
    LET self == Join(Join(w.lb, SegCustomers), NumToString(id))
    IN  MkLinks(self, self, Join(self, SegTrainings))

\* the _links block the server writes for training id
TrainingHal(w, id) ==
    LET self == Join(Join(w.lb, SegTrainings), NumToString(id))
    IN  MkLinks(self, Join(self, SegCustomer), self)

\* one item of the HAL collection GET /customers answers, and the document
\* GET /customers/{id} answers: the attributes and the _links block
CustomerDoc(w, rec) ==
    [id |-> NoId, attrs |-> rec.attrs, links |-> NoLinks,
     hal |-> IF rec.linked THEN CustomerHal(w, rec.id) ELSE NoLinks]

\* the customer a flat training embeds: numeric id, no links
EmbeddedCustomer(w, cust) ==
    IF HasRecord(w.cdb, cust)
    THEN [present |-> TRUE,
          value |-> MkCustomer(<<cust>>, RecordOf(w.cdb, cust).attrs, NoLinks)]
    ELSE [present |-> FALSE,
          value |-> MkCustomer(NoId, CHOOSE a \in CustomerAttrs : TRUE, NoLinks)]

NoCustomer ==
    [present |-> FALSE,
     value |-> MkCustomer(NoId, CHOOSE a \in CustomerAttrs : TRUE, NoLinks)]

\* one item of the array GET /gettrainings answers
TrainingDoc(w, rec) ==
    [id |-> IF rec.shape \in {"flat", "both"} THEN <<rec.id>> ELSE NoId,
     attrs |-> rec.attrs,
     customer |-> IF rec.shape \in {"flat", "both"}
                  THEN EmbeddedCustomer(w, rec.cust) ELSE NoCustomer,
     links |-> IF rec.shape \in {"hal", "both"}
               THEN TrainingHal(w, rec.id) ELSE NoLinks]

MapSeq(seq, F(_)) == [i \in 1..Len(seq) |-> F(seq[i])]

Remove(db, id) == SelectSeq(db, LAMBDA r : r.id # id)

Replace(db, id, attrs) ==
    [i \in 1..Len(db) |-> IF db[i].id = id THEN [db[i] EXCEPT !.attrs = attrs]
                          ELSE db[i]]

\* a request body: the customer attributes of a customer request, or the
\* training attributes and customer address of a training request
NoBody == [kind |-> "none"]
CustomerBody(attrs) == [kind |-> "customer", attrs |-> attrs]
TrainingBody(attrs, customer) ==
    [kind |-> "training", attrs |-> attrs, customer |-> customer]

Reply(w, status, items) == [w |-> w, status |-> status, items |-> items]

\* whether address url names an existing customer
NamesCustomer(w, url) ==
    The({ c.coll = "customers" /\ c.id # 0 /\ HasRecord(w.cdb, c.id) :
          c \in {Route(url)} })

\* the server's answer to request req, which names resource r
ServeAt(w, req, r) ==
    CASE r.coll = "customers" /\ r.id = 0 /\ req.method = "GET" ->
           Reply(w, 200, MapSeq(w.cdb, LAMBDA rec : CustomerDoc(w, rec)))
      [] r.coll = "customers" /\ r.id = 0 /\ req.method = "POST"
           /\ req.body.kind = "customer" ->
           Reply([w EXCEPT !.cdb = Append(@, [id |-> w.nid, linked |-> TRUE,
                                              attrs |-> req.body.attrs]),
                           !.nid = @ + 1], 201, <<>>)
      [] r.coll = "customers" /\ r.id # 0 /\ HasRecord(w.cdb, r.id)
           /\ req.method = "GET" ->
           Reply(w, 200, <<CustomerDoc(w, RecordOf(w.cdb, r.id))>>)
      [] r.coll = "customers" /\ r.id # 0 /\ HasRecord(w.cdb, r.id)
           /\ req.method = "PUT" /\ req.body.kind = "customer" ->
           Reply([w EXCEPT !.cdb = Replace(@, r.id, req.body.attrs)], 200, <<>>)
      [] r.coll = "customers" /\ r.id # 0 /\ HasRecord(w.cdb, r.id)
           /\ req.method = "DELETE" ->
           Reply([w EXCEPT !.cdb = Remove(@, r.id)], 204, <<>>)
      [] r.coll = "trainings" /\ r.id = 0 /\ req.method = "POST"
           /\ req.body.kind = "training" ->
           IF NamesCustomer(w, req.body.customer)
           THEN Reply([w EXCEPT !.tdb = Append(@, [id |-> w.nid, shape |-> "both",
                                                   cust |-> Route(req.body.customer).id,
                                                   attrs |-> req.body.attrs]),
                                !.nid = @ + 1], 201, <<>>)
           ELSE Reply(w, 400, <<>>)
      [] r.coll = "trainings" /\ r.id # 0 /\ HasRecord(w.tdb, r.id)
           /\ req.method = "PUT" /\ req.body.kind = "training" ->
           IF NamesCustomer(w, req.body.customer)
           THEN Reply([w EXCEPT !.tdb = Replace(@, r.id, req.body.attrs)], 200, <<>>)
           ELSE Reply(w, 400, <<>>)
      [] r.coll = "trainings" /\ r.id # 0 /\ HasRecord(w.tdb, r.id)
           /\ req.method = "DELETE" ->
           Reply([w EXCEPT !.tdb = Remove(@, r.id)], 204, <<>>)
      [] r.coll = "trainingcustomer" /\ HasRecord(w.tdb, r.id)
           /\ HasRecord(w.cdb, RecordOf(w.tdb, r.id).cust) /\ req.method = "GET" ->
           Reply(w, 200, <<CustomerDoc(w, RecordOf(w.cdb, RecordOf(w.tdb, r.id).cust))>>)
      [] r.coll = "gettrainings" /\ req.method = "GET" ->
           Reply(w, 200, MapSeq(w.tdb, LAMBDA rec : TrainingDoc(w, rec)))
      [] r.coll = "reset" /\ req.method = "POST" ->
           Reply(DefaultWorld(w.lb), 200, <<>>)
      [] OTHER -> Reply(w, 404, <<>>)

\* the server's answer to a request that reaches it
Serve(w, req) == The({ ServeAt(w, req, r) : r \in {Route(req.url)} })

\* the payloads of a 200 answer to GET /customers that hold no embedded
\* array: null, an object without _embedded, _embedded without customers
BarePayloads == {"null", "noembedded", "noarray"}

\* the outcomes every fetch can end in: the request reaches the server
\* ("srv"), the server answers 500 without acting ("err"), or fetch rejects
\* ("throw")
TransportOutcomes == {"srv", "err", "throw"}

\* what a fetch can end in.  Besides the transport outcomes: the request
\* reaches the server and the body of the answer is not JSON ("garbled"),
\* a creation is answered 200 in place of 201 ("ok"), the collection is
\* answered with a payload without embedded array.
Outcomes == TransportOutcomes \cup {"garbled", "ok"} \cup BarePayloads

\* the requests an outcome is an outcome of: only the answers to GET are
\* decoded, only POST creates, only GET /customers is read as a collection
Applicable(req, o) ==
    \/ o \in TransportOutcomes
    \/ o = "garbled" /\ req.method = "GET"
    \/ o = "ok" /\ req.method = "POST" /\ req.url \in {ENDPOINTS.customers,
                                                       ENDPOINTS.trainings}
    \/ o \in BarePayloads /\ req.method = "GET" /\ req.url = ENDPOINTS.customers

\* st is an operation in progress: the backend state and the requests
\* issued so far, each logged with the status it was answered with (0 when
\* fetch rejected) and the items of the answer.  Fetch issues req as the
\* operation's next request, whose outcome is the entry of oc at that
\* position.
Answered(st, req, thrown, status, payload, items, w2) ==
    [w |-> w2,
     reqs |-> Append(st.reqs, [method |-> req.method, url |-> req.url,
                               body |-> req.body, status |-> status,
                               payload |-> payload, items |-> items]),
     thrown |-> thrown, status |-> status, payload |-> payload, items |-> items]

\* payload is "json" for an answer whose body is the document the server
\* wrote (its items), "garbled" for a body that is not JSON, and the kind
\* of payload for a collection answered without embedded array
Fetch(st, req, oc) ==
    The({ IF o = "throw" THEN Answered(st, req, TRUE, 0, "json", <<>>, st.w)
          ELSE IF o = "err" THEN Answered(st, req, FALSE, 500, "json", <<>>, st.w)
          ELSE The({ IF o = "garbled" /\ Applicable(req, o)
                     THEN Answered(st, req, FALSE, a.status, "garbled", <<>>, a.w)
                     ELSE IF o = "ok" /\ Applicable(req, o) /\ a.status = 201
                     THEN Answered(st, req, FALSE, 200, "json", a.items, a.w)
                     ELSE IF o \in BarePayloads /\ Applicable(req, o)
                     THEN Answered(st, req, FALSE, a.status, o, <<>>, a.w)
                     ELSE Answered(st, req, FALSE, a.status, "json", a.items, a.w) :
                     a \in {Serve(st.w, req)} }) :
          o \in {oc[Len(st.reqs) + 1]} })

\* Response.ok
Ok(resp) == ~resp.thrown /\ resp.status \in 200..299

Request(method, url, body) == [method |-> method, url |-> url, body |-> body]

\* whether response.json() rejects
JsonThrows(resp) == resp.payload = "garbled"

\* an operation's end: the backend state, the requests issued, the value
\* the returned promise resolves to (rejected: the promise is rejected
\* instead)
Done(r, ret) == [w |-> r.w, reqs |-> r.reqs, ret |-> ret, rejected |-> FALSE]

Catch_Rethrow(r, ret) == [w |-> r.w, reqs |-> r.reqs, ret |-> ret, rejected |-> TRUE]

\* an exception thrown in an operation's try block reaches its catch block,
\* which returns ret
Catch(r, ret) == Done(r, ret)

----------------------------------------------------------------------------
(* Customer API *)

NormalizeCustomer_PhoneFromPostcode(doc) ==
    MkCustomer(NoId,
               [firstname |-> doc.attrs.firstname,
                lastname |-> doc.attrs.lastname,
                streetaddress |-> doc.attrs.streetaddress,
                postcode |-> doc.attrs.postcode,
                city |-> doc.attrs.city,
                email |-> doc.attrs.email,
                phone |-> doc.attrs.postcode],
               MkLinks(IF Truthy(doc.hal.self) THEN doc.hal.self ELSE EmptyStr,
                       IF Truthy(doc.hal.customer) THEN doc.hal.customer ELSE EmptyStr,
                       IF Truthy(doc.hal.other) THEN doc.hal.other ELSE EmptyStr))

NormalizeCustomer_LinksAsGiven(doc) ==
    MkCustomer(NoId,
               [firstname |-> doc.attrs.firstname,
                lastname |-> doc.attrs.lastname,
                streetaddress |-> doc.attrs.streetaddress,
                postcode |-> doc.attrs.postcode,
                city |-> doc.attrs.city,
                email |-> doc.attrs.email,
                phone |-> doc.attrs.phone],
               MkLinks(doc.hal.self, doc.hal.customer, doc.hal.other))

\* the mapping getCustomers applies to one item of _embedded.customers
NormalizeCustomer(doc) ==
    MkCustomer(NoId,
               [firstname |-> doc.attrs.firstname,
                lastname |-> doc.attrs.lastname,
                streetaddress |-> doc.attrs.streetaddress,
                postcode |-> doc.attrs.postcode,
                city |-> doc.attrs.city,
                email |-> doc.attrs.email,
                phone |-> doc.attrs.phone],
               MkLinks(IF Truthy(doc.hal.self) THEN doc.hal.self ELSE EmptyStr,
                       IF Truthy(doc.hal.customer) THEN doc.hal.customer ELSE EmptyStr,
                       IF Truthy(doc.hal.other) THEN doc.hal.other ELSE EmptyStr))

\* getCustomers: GET the collection; [] on any failure
normalizeCollection_Throws(r) ==
    IF r.payload \in BarePayloads THEN Catch_Rethrow(r, <<>>)
    ELSE Done(r, MapSeq(r.items, NormalizeCustomer))

\* what getCustomers makes of the decoded payload: [] when
\* !data?._embedded?.customers, else the mapped array
normalizeCollection(r) ==
    IF r.payload \in BarePayloads THEN Done(r, <<>>)
    ELSE Done(r, MapSeq(r.items, NormalizeCustomer))

getCustomers(st, oc) ==
    The({ IF r.thrown \/ ~Ok(r) \/ JsonThrows(r) THEN Catch(r, <<>>)
          ELSE normalizeCollection(r) :
          r \in {Fetch(st, Request("GET", ENDPOINTS.customers, NoBody), oc)} })

\* addCustomer: POST the collection; true iff answered 201
addCustomer(st, customer, oc) ==
    The({ IF r.thrown THEN Catch(r, FALSE) ELSE Done(r, r.status = 201) :
          r \in {Fetch(st, Request("POST", ENDPOINTS.customers,
                                   CustomerBody(customer.attrs)), oc)} })

\* the predicate of allCustomers.find in findCustomerByData
Matches(c, customer) ==
    /\ c.attrs.firstname = customer.attrs.firstname
    /\ c.attrs.lastname = customer.attrs.lastname
    /\ c.attrs.email = customer.attrs.email

FindMatch_NameOnly(all, customer) ==
    IF \A i \in 1..Len(all) : ~(/\ all[i].attrs.firstname = customer.attrs.firstname
                               /\ all[i].attrs.lastname = customer.attrs.lastname)
    THEN [found |-> FALSE, value |-> customer]
    ELSE [found |-> TRUE,
          value |-> all[CHOOSE i \in 1..Len(all) :
                          /\ all[i].attrs.firstname = customer.attrs.firstname
                          /\ all[i].attrs.lastname = customer.attrs.lastname
                          /\ \A j \in 1..(i - 1) :
                                ~(/\ all[j].attrs.firstname = customer.attrs.firstname
                                  /\ all[j].attrs.lastname = customer.attrs.lastname)]]

\* Array.prototype.find with that predicate: the first matching element
\* (found is FALSE for undefined)
FindMatch(all, customer) ==
    IF \A i \in 1..Len(all) : ~Matches(all[i], customer)
    THEN [found |-> FALSE, value |-> customer]
    ELSE [found |-> TRUE,
          value |-> all[CHOOSE i \in 1..Len(all) :
                          /\ Matches(all[i], customer)
                          /\ \A j \in 1..(i - 1) : ~Matches(all[j], customer)]]

\* the fallback of findCustomerByData: match over getCustomers()
FindByProperties(st, customer, oc) ==
    The({ IF l.rejected THEN Catch(l, [found |-> FALSE, value |-> customer])
          ELSE Done(l, FindMatch(l.ret, customer)) :
          l \in {getCustomers(st, oc)} })

\* findCustomerByData: ret.found is FALSE for null
findCustomerByData(st, customer, oc) ==
    The({ IF Truthy(customerId)
          THEN The({ IF Ok(r1) /\ ~JsonThrows(r1)
                     THEN Done(r1, [found |-> TRUE, value |-> r1.items[1]])
                     ELSE FindByProperties(r1, customer, oc) :
                     r1 \in {Fetch(st, Request("GET", Join(ENDPOINTS.customers, customerId),
                                               NoBody), oc)} })
          ELSE FindByProperties(st, customer, oc) :
          customerId \in {getCustomerId(FALSE, EmptyStr, customer)} })

PutCustomer_ThenCreate(st, url, customer, oc) ==
    The({ IF r.thrown THEN Catch(r, FALSE)
          ELSE IF Ok(r) THEN Done(r, TRUE)
          ELSE addCustomer(r, customer, oc) :
          r \in {Fetch(st, Request("PUT", url, CustomerBody(customer.attrs)), oc)} })

\* fetch(url, {method: 'PUT', body: JSON.stringify(customer)}); response.ok
PutCustomer(st, url, customer, oc) ==
    The({ IF r.thrown THEN Catch(r, FALSE) ELSE Done(r, Ok(r)) :
          r \in {Fetch(st, Request("PUT", url, CustomerBody(customer.attrs)), oc)} })

UpdateByData_NoCreate(st, customer, oc) ==
    The({ IF m.rejected THEN Catch(m, FALSE)
          ELSE IF m.ret.found /\ Truthy(m.ret.value.links.self)
          THEN PutCustomer(m, m.ret.value.links.self, customer, oc)
          ELSE Done(m, FALSE) :
          m \in {findCustomerByData(st, customer, oc)} })

UpdateByData_AlwaysCreate(st, customer, oc) ==
    The({ IF m.rejected THEN Catch(m, FALSE) ELSE addCustomer(m, customer, oc) :
          m \in {findCustomerByData(st, customer, oc)} })

\* cases 3 and 4 of updateCustomer: find by matching data, else add
UpdateByData(st, customer, oc) ==
    The({ IF m.rejected THEN Catch(m, FALSE)
          ELSE IF m.ret.found /\ Truthy(m.ret.value.links.self)
          THEN PutCustomer(m, m.ret.value.links.self, customer, oc)
          ELSE addCustomer(m, customer, oc) :
          m \in {findCustomerByData(st, customer, oc)} })

\* updateCustomer
updateCustomer(st, customer, oc) ==
    IF Truthy(customer.links.self)
    THEN PutCustomer(st, customer.links.self, customer, oc)
    ELSE The({ IF Truthy(customerId)
               THEN PutCustomer(st, Join(ENDPOINTS.customers, customerId), customer, oc)
               ELSE UpdateByData(st, customer, oc) :
               customerId \in {getCustomerId(FALSE, EmptyStr, customer)} })

\* fetch(url, {method: 'DELETE'}); response.ok
DeleteAt(st, url, oc) ==
    The({ IF r.thrown THEN Catch(r, FALSE) ELSE Done(r, Ok(r)) :
          r \in {Fetch(st, Request("DELETE", url, NoBody), oc)} })

\* deleteCustomer(customer: Customer | string)
deleteCustomer(st, isString, str, customer, oc) ==
    IF isString
    THEN IF StartsWith(str, HttpPrefix)
         THEN DeleteAt(st, str, oc)
         ELSE DeleteAt(st, Join(ENDPOINTS.customers, str), oc)
    ELSE IF Truthy(customer.links.self)
    THEN DeleteAt(st, customer.links.self, oc)
    ELSE The({ IF m.rejected THEN Catch(m, FALSE)
               ELSE IF m.ret.found /\ Truthy(m.ret.value.links.self)
               THEN DeleteAt(m, m.ret.value.links.self, oc)
               ELSE Done(m, FALSE) :
               m \in {findCustomerByData(st, customer, oc)} })

----------------------------------------------------------------------------
(* Training API *)

\* a Training of types/index.ts
MkTraining(id, attrs, customer, links) ==
    [id |-> id, attrs |-> attrs, customer |-> customer, links |-> links]

getTrainings_ErrorBodyAsList(st, oc) ==
    The({ IF r.thrown \/ JsonThrows(r) THEN Catch(r, <<>>)
          ELSE IF ~Ok(r) THEN Done(r, <<[error |-> r.status]>>)
          ELSE Done(r, r.items) :
          r \in {Fetch(st, Request("GET", ENDPOINTS.getTrainings, NoBody), oc)} })

\* getTrainings: GET /gettrainings, the decoded array as it is
getTrainings(st, oc) ==
    The({ IF r.thrown \/ ~Ok(r) \/ JsonThrows(r) THEN Catch(r, <<>>)
          ELSE Done(r, r.items) :
          r \in {Fetch(st, Request("GET", ENDPOINTS.getTrainings, NoBody), oc)} })

CustomerUrl_AsGiven(customer) == customer

\* the customerUrl that addTraining and updateTraining put in the payload
CustomerUrl(customer) ==
    IF ~StartsWith(customer, HttpPrefix)
    THEN Join(ENDPOINTS.customers, customer)
    ELSE customer

\* addTraining(training): training.customer is a string
addTraining(st, attrs, customer, oc) ==
    The({ IF r.thrown THEN Catch(r, FALSE) ELSE Done(r, Ok(r)) :
          r \in {Fetch(st, Request("POST", ENDPOINTS.trainings,
                                   TrainingBody(attrs, CustomerUrl(customer))), oc)} })

\* updateTraining(trainingId, training)
updateTraining(st, trainingId, attrs, customer, oc) ==
    The({ IF r.thrown THEN Catch(r, FALSE) ELSE Done(r, Ok(r)) :
          r \in {Fetch(st, Request("PUT", Join(ENDPOINTS.trainings, trainingId),
                                   TrainingBody(attrs, CustomerUrl(customer))), oc)} })

\* deleteTraining(training: Training | string)
deleteTraining(st, isString, str, training, oc) ==
    IF isString
    THEN DeleteAt(st, IF StartsWith(str, HttpPrefix) THEN str
                      ELSE Join(ENDPOINTS.trainings, str), oc)
    ELSE IF Truthy(training.links.self)
    THEN DeleteAt(st, training.links.self, oc)
    ELSE IF HasId(training)
    THEN DeleteAt(st, Join(ENDPOINTS.trainings, NumToString(training.id[1])), oc)
    ELSE Done(st, FALSE)

\* resetDatabase
resetDatabase(st, oc) ==
    The({ IF r.thrown THEN Catch(r, FALSE) ELSE Done(r, Ok(r)) :
          r \in {Fetch(st, Request("POST", ENDPOINTS.reset, NoBody), oc)} })

----------------------------------------------------------------------------
(* State *)

VARIABLES
    w,                \* the backend
    calls,            \* number of operations started that issue requests
    op,               \* the operation last carried out
    arg,              \* its argument
    reqs,             \* the requests it issued, in order, with their answers
    ret,              \* what it returned
    customers,        \* CustomerList: the customers working set
    selectedCustomer, \* CustomerList: selectedCustomer
    clOpen,           \* CustomerList: which dialog is open
    trainings,        \* TrainingList: the trainings working set
    tlCustomers,      \* TrainingList: the customers working set
    selectedTraining, \* TrainingList: selectedTraining
    tlOpen,           \* TrainingList: which dialog is open
    pending,          \* TrainingList: the lazy customer fetches in flight
    loaded,           \* TrainingList: self addresses of the trainings whose lazy
                      \* fetch succeeded since trainings was last fetched
    notification,     \* the notification last shown
    resetDialogOpen,  \* Navigation: whether the reset confirmation is open
    fetching,         \* the list fetches in flight, in the order they started
    isLoading,        \* the loading flag of each screen
    calTrainings,     \* TrainingCalendar: trainings
    statTrainings     \* Statistics: trainings

vars == <<w, calls, op, arg, reqs, ret, customers, selectedCustomer, clOpen,
          trainings, tlCustomers, selectedTraining, tlOpen, pending, loaded,
          notification, resetDialogOpen, fetching, isLoading, calTrainings,
          statTrainings>>

apiVars == <<w, calls, op, arg, reqs, ret>>
clVars == <<customers, selectedCustomer, clOpen>>
lzVars == <<pending, loaded>>
navVars == <<resetDialogOpen>>
ldVars == <<fetching, isLoading, calTrainings, statTrainings>>

\* the screens that load a list
Screens == {"CustomerList", "TrainingList", "TrainingCalendar", "Statistics"}
tlVars == <<trainings, tlCustomers, selectedTraining, tlOpen, lzVars>>

AnyCustomer == MkCustomer(NoId, CHOOSE a \in CustomerAttrs : TRUE, NoLinks)
AnyTraining ==
    MkTraining(NoId, CHOOSE a \in TrainingAttrs : TRUE, NoCustomer, NoLinks)

\* the argument of an operation: only the fields the operation takes are
\* meaningful
NoArg ==
    [isString |-> FALSE, str |-> EmptyStr, customer |-> AnyCustomer,
     training |-> AnyTraining]

StrArg(str) == [NoArg EXCEPT !.isString = TRUE, !.str = str]
CustomerArg(c) == [NoArg EXCEPT !.customer = c]
TrainingArg(t) == [NoArg EXCEPT !.training = t]

\* what an operation returned: a boolean, a string or null, or a list;
\* rejected tells that it ended in a rejected promise instead
NoRet ==
    [ok |-> FALSE, str |-> Undefined, list |-> <<>>, found |-> FALSE,
     rejected |-> FALSE]
BoolRet(b) == [NoRet EXCEPT !.ok = b]
StrRet(x) == [NoRet EXCEPT !.str = x]
ListRet(l) == [NoRet EXCEPT !.list = l]

\* the settled promise of operation end r, which resolves to rt unless it
\* is rejected
Settled(r, rt) == [rt EXCEPT !.rejected = r.rejected]

NoNotification == [message |-> "", severity |-> ""]
NoSelection(any) == [present |-> FALSE, value |-> any]
Selected(v) == [present |-> TRUE, value |-> v]

Init ==
    /\ w \in {DefaultWorld(API_BASE_URL), DefaultWorld(ALT_BASE_URL)}
    /\ calls = 0
    /\ op = "none"
    /\ arg = NoArg
    /\ reqs = <<>>
    /\ ret = NoRet
    /\ customers = <<>>
    /\ selectedCustomer = NoSelection(AnyCustomer)
    /\ clOpen = "none"
    /\ trainings = <<>>
    /\ tlCustomers = <<>>
    /\ selectedTraining = NoSelection(AnyTraining)
    /\ tlOpen = "none"
    /\ pending = <<>>
    /\ loaded = {}
    /\ notification = NoNotification
    /\ resetDialogOpen = FALSE
    /\ fetching = <<>>
    /\ isLoading = [s \in Screens |-> FALSE]
    /\ calTrainings = <<>>
    /\ statTrainings = <<>>

----------------------------------------------------------------------------
(* Inputs *)

CustomerUrlOf(base, id) == Join(Join(base, SegCustomers), NumToString(id))
TrainingUrlOf(base, id) == Join(Join(base, SegTrainings), NumToString(id))

\* strings passed where the code takes an address or an identifier
StrInputs ==
    { EmptyStr,
      <<"1">>, <<"5">>,
      Join(SegCustomers, <<"5">>),
      CustomerUrlOf(API_BASE_URL, 1),
      CustomerUrlOf(ALT_BASE_URL, 2),
      Join(ENDPOINTS.customers, EmptyStr),
      Join(TrainingUrlOf(ALT_BASE_URL, 2), SegCustomer) }

LinksInputs ==
    {NoLinks}
    \cup { MkLinks(self, customer, EmptyStr) :
             self \in {EmptyStr, CustomerUrlOf(API_BASE_URL, 1),
                       CustomerUrlOf(ALT_BASE_URL, 2)},
             customer \in {EmptyStr, CustomerUrlOf(ALT_BASE_URL, 2)} }

IdInputs == {NoId, <<1>>}

CustomerInputs ==
    { MkCustomer(id, attrs, links) :
        id \in IdInputs, attrs \in CustomerAttrs, links \in LinksInputs }

\* customers one of whose link addresses ends in "/"
SlashLinkCustomers ==
    { MkCustomer(NoId, CHOOSE a \in CustomerAttrs : TRUE, MkLinks(self, customer, EmptyStr)) :
        self \in {EmptyStr, Join(ENDPOINTS.customers, EmptyStr)},
        customer \in {CustomerUrlOf(ALT_BASE_URL, 2), Join(ENDPOINTS.customers, EmptyStr)} }

TrainingLinksInputs ==
    { NoLinks,
      MkLinks(EmptyStr, EmptyStr, EmptyStr),
      MkLinks(TrainingUrlOf(ALT_BASE_URL, 2), EmptyStr, EmptyStr) }

TrainingInputs ==
    { MkTraining(id, attrs, NoCustomer, links) :
        id \in IdInputs, attrs \in TrainingAttrs, links \in TrainingLinksInputs }

\* the outcomes of the requests of one operation, by position; the entries
\* after prefix are "srv"
OutcomesFrom(prefix) ==
    [i \in 1..4 |-> IF i <= Len(prefix) THEN prefix[i] ELSE "srv"]

\* an operation that issues requests ran to its end r
Ran(name, a, r, rt) ==
    /\ r.w.nid <= MaxId + 1
    /\ calls' = calls + 1
    /\ w' = r.w
    /\ op' = name
    /\ arg' = a
    /\ reqs' = r.reqs
    /\ ret' = rt

\* Run(F, Then): operation F, which maps the outcomes of its requests to
\* its end, runs with every outcome of every request it issues, and Then
\* holds of its end.  Whether F issues a k-th request depends on the
\* outcomes of the requests before it only.
Run(F(_), Then(_)) ==
    \E o1 \in Outcomes : \E r1 \in {F(OutcomesFrom(<<o1>>))} :
      IF Len(r1.reqs) = 0 THEN o1 = "srv" /\ Then(r1)
      ELSE IF ~Applicable(r1.reqs[1], o1) THEN FALSE
      ELSE IF Len(r1.reqs) = 1 THEN Then(r1)
      ELSE \E o2 \in Outcomes : \E r2 \in {F(OutcomesFrom(<<o1, o2>>))} :
        IF ~Applicable(r2.reqs[2], o2) THEN FALSE
        ELSE IF Len(r2.reqs) = 2 THEN Then(r2)
        ELSE \E o3 \in Outcomes : \E r3 \in {F(OutcomesFrom(<<o1, o2, o3>>))} :
          IF ~Applicable(r3.reqs[3], o3) THEN FALSE
          ELSE IF Len(r3.reqs) = 3 THEN Then(r3)
          ELSE \E o4 \in Outcomes :
                 \E r4 \in {F(OutcomesFrom(<<o1, o2, o3, o4>>))} :
                   Applicable(r4.reqs[4], o4) /\ Then(r4)

\* no operation is being carried out and another one may start
Ready == op = "none" /\ calls < MaxCalls

Start == [w |-> w, reqs |-> <<>>]

----------------------------------------------------------------------------
(* The API client called on its own *)

ExtractIdFromUrl ==
    \E url \in StrInputs \cup {Undefined} :
        /\ op = "none"
        /\ op' = "extractIdFromUrl"
        /\ arg' = StrArg(url)
        /\ reqs' = <<>>
        /\ ret' = StrRet(extractIdFromUrl(url))
        /\ UNCHANGED <<w, calls, clVars, tlVars, notification, navVars, ldVars>>

GetCustomerId ==
    \E a \in {StrArg(s) : s \in StrInputs}
              \cup {CustomerArg(c) : c \in CustomerInputs \cup SlashLinkCustomers} :
        /\ op = "none"
        /\ op' = "getCustomerId"
        /\ arg' = a
        /\ reqs' = <<>>
        /\ ret' = StrRet(getCustomerId(a.isString, a.str, a.customer))
        /\ UNCHANGED <<w, calls, clVars, tlVars, notification, navVars, ldVars>>

GetCustomers ==
    /\ Ready
    /\ Run(LAMBDA oc : getCustomers(Start, oc),
           LAMBDA r : /\ Ran("getCustomers", NoArg, r, Settled(r, ListRet(r.ret)))
                      /\ UNCHANGED <<clVars, tlVars, notification, navVars, ldVars>>)

AddCustomer ==
    \E c \in {x \in CustomerInputs : x.id = NoId /\ x.links = NoLinks} :
        /\ Ready
        /\ Run(LAMBDA oc : addCustomer(Start, c, oc),
               LAMBDA r : /\ Ran("addCustomer", CustomerArg(c), r, Settled(r, BoolRet(r.ret)))
                          /\ UNCHANGED <<clVars, tlVars, notification, navVars, ldVars>>)

FindCustomerByData ==
    \E c \in CustomerInputs :
        /\ Ready
        /\ Run(LAMBDA oc : findCustomerByData(Start, c, oc),
               LAMBDA r : /\ Ran("findCustomerByData", CustomerArg(c), r,
                               Settled(r, [NoRet EXCEPT !.found = r.ret.found,
                                           !.list = IF r.ret.found
                                                    THEN <<r.ret.value>> ELSE <<>>]))
                          /\ UNCHANGED <<clVars, tlVars, notification, navVars, ldVars>>)

UpdateCustomer ==
    \E c \in CustomerInputs :
        /\ Ready
        /\ Run(LAMBDA oc : updateCustomer(Start, c, oc),
               LAMBDA r : /\ Ran("updateCustomer", CustomerArg(c), r, Settled(r, BoolRet(r.ret)))
                          /\ UNCHANGED <<clVars, tlVars, notification, navVars, ldVars>>)

DeleteCustomer ==
    \E a \in {StrArg(x) : x \in StrInputs} \cup {CustomerArg(c) : c \in CustomerInputs} :
        /\ Ready
        /\ Run(LAMBDA oc : deleteCustomer(Start, a.isString, a.str, a.customer, oc),
               LAMBDA r : /\ Ran("deleteCustomer", a, r, Settled(r, BoolRet(r.ret)))
                          /\ UNCHANGED <<clVars, tlVars, notification, navVars, ldVars>>)

GetTrainings ==
    /\ Ready
    /\ Run(LAMBDA oc : getTrainings(Start, oc),
           LAMBDA r : /\ Ran("getTrainings", NoArg, r, Settled(r, ListRet(r.ret)))
                      /\ UNCHANGED <<clVars, tlVars, notification, navVars, ldVars>>)

AddTraining ==
    \E attrs \in TrainingAttrs, customer \in StrInputs :
        /\ Ready
        /\ Run(LAMBDA oc : addTraining(Start, attrs, customer, oc),
               LAMBDA r : /\ Ran("addTraining",
                                 [StrArg(customer) EXCEPT !.training.attrs = attrs],
                                 r, Settled(r, BoolRet(r.ret)))
                          /\ UNCHANGED <<clVars, tlVars, notification, navVars, ldVars>>)

UpdateTraining ==
    \E trainingId \in {<<"1">>, <<"2">>, <<"5">>}, attrs \in TrainingAttrs,
       customer \in StrInputs :
        /\ Ready
        /\ Run(LAMBDA oc : updateTraining(Start, trainingId, attrs, customer, oc),
               LAMBDA r : /\ Ran("updateTraining",
                                 [StrArg(customer) EXCEPT !.training.attrs = attrs],
                                 r, Settled(r, BoolRet(r.ret)))
                          /\ UNCHANGED <<clVars, tlVars, notification, navVars, ldVars>>)

DeleteTraining ==
    \E a \in {StrArg(x) : x \in StrInputs} \cup {TrainingArg(t) : t \in TrainingInputs} :
        /\ Ready
        /\ Run(LAMBDA oc : deleteTraining(Start, a.isString, a.str, a.training, oc),
               LAMBDA r : /\ Ran("deleteTraining", a, r, Settled(r, BoolRet(r.ret)))
                          /\ UNCHANGED <<clVars, tlVars, notification, navVars, ldVars>>)

ResetDatabase ==
    /\ Ready
    /\ Run(LAMBDA oc : resetDatabase(Start, oc),
           LAMBDA r : /\ Ran("resetDatabase", NoArg, r, Settled(r, BoolRet(r.ret)))
                      /\ UNCHANGED <<clVars, tlVars, notification, navVars, ldVars>>)

\* a caller repeats a delete that reported success, with the same argument
DeleteCustomerAgain ==
    /\ op = "deleteCustomer" /\ ret.ok /\ calls <= MaxCalls
    /\ Run(LAMBDA oc : deleteCustomer(Start, arg.isString, arg.str, arg.customer, oc),
           LAMBDA r : /\ Ran("deleteCustomer again", arg, r, Settled(r, BoolRet(r.ret)))
                      /\ UNCHANGED <<clVars, tlVars, notification, navVars, ldVars>>)

DeleteTrainingAgain ==
    /\ op = "deleteTraining" /\ ret.ok /\ calls <= MaxCalls
    /\ Run(LAMBDA oc : deleteTraining(Start, arg.isString, arg.str, arg.training, oc),
           LAMBDA r : /\ Ran("deleteTraining again", arg, r, Settled(r, BoolRet(r.ret)))
                      /\ UNCHANGED <<clVars, tlVars, notification, navVars, ldVars>>)

\* a caller lists the collection right after a create that reported success
GetCustomersAfterAdd ==
    /\ op = "addCustomer" /\ ret.ok /\ calls <= MaxCalls
    /\ Run(LAMBDA oc : getCustomers(Start, oc),
           LAMBDA r : /\ Ran("getCustomers after addCustomer", arg, r, Settled(r, ListRet(r.ret)))
                      /\ UNCHANGED <<clVars, tlVars, notification, navVars, ldVars>>)

GetTrainingsAfterAdd ==
    /\ op = "addTraining" /\ ret.ok /\ calls <= MaxCalls
    /\ Run(LAMBDA oc : getTrainings(Start, oc),
           LAMBDA r : /\ Ran("getTrainings after addTraining", arg, r, Settled(r, ListRet(r.ret)))
                      /\ UNCHANGED <<clVars, tlVars, notification, navVars, ldVars>>)

\* op, arg, reqs and ret describe the operation carried out last; they are
\* forgotten before the next one starts
Idle ==
    /\ op # "none"
    /\ op' = "none"
    /\ arg' = NoArg
    /\ reqs' = <<>>
    /\ ret' = NoRet
    /\ UNCHANGED <<w, calls, clVars, tlVars, notification, navVars, ldVars>>

ResolverNext ==
    \/ ExtractIdFromUrl
    \/ GetCustomerId
    \/ Idle

ApiNext ==
    \/ GetCustomers
    \/ AddCustomer
    \/ FindCustomerByData
    \/ UpdateCustomer
    \/ DeleteCustomer
    \/ GetTrainings
    \/ AddTraining
    \/ UpdateTraining
    \/ DeleteTraining
    \/ ResetDatabase
    \/ DeleteCustomerAgain
    \/ DeleteTrainingAgain
    \/ GetCustomersAfterAdd
    \/ GetTrainingsAfterAdd
    \/ Idle


----------------------------------------------------------------------------
(* TrainingFormDialog *)

\* getCustomerIdFromProps(trainingObj?, customerObj?): the customerId the
\* dialog starts with
getCustomerIdFromProps(hasTraining, trainingObj, hasCustomer, customerObj) ==
    The({ IF fromTraining # EmptyStr THEN fromTraining
          ELSE IF ~hasCustomer THEN EmptyStr
          ELSE IF Truthy(getCustomerId(FALSE, EmptyStr, customerObj))
          THEN getCustomerId(FALSE, EmptyStr, customerObj)
          ELSE IF Truthy(customerObj.links.self) THEN customerObj.links.self
          ELSE EmptyStr :
          fromTraining \in {
            IF ~(hasTraining /\ trainingObj.customer.present) THEN EmptyStr
            ELSE IF Truthy(getCustomerId(FALSE, EmptyStr, trainingObj.customer.value))
            THEN getCustomerId(FALSE, EmptyStr, trainingObj.customer.value)
            ELSE IF HasId(trainingObj.customer.value)
            THEN NumToString(trainingObj.customer.value.id[1])
            ELSE IF Truthy(trainingObj.customer.value.links.self)
                    /\ Truthy(extractIdFromUrl(trainingObj.customer.value.links.self))
            THEN extractIdFromUrl(trainingObj.customer.value.links.self)
            ELSE IF Truthy(trainingObj.links.customer) THEN trainingObj.links.customer
            ELSE EmptyStr } })

\* the value of a CustomerSelector menu item
SelectorValue(customer) ==
    IF Truthy(getCustomerId(FALSE, EmptyStr, customer))
    THEN getCustomerId(FALSE, EmptyStr, customer)
    ELSE EmptyStr

\* the customerId values the form can hold when it is submitted: the one
\* the dialog started with, or a menu item picked while the selector is
\* enabled; the submit button is disabled while it is empty
FormCustomerIds(hasTraining, trainingObj, hasCustomer, customerObj, menu) ==
    { id \in {getCustomerIdFromProps(hasTraining, trainingObj, hasCustomer, customerObj)}
             \cup (IF hasTraining THEN {}
                   ELSE {SelectorValue(menu[i]) : i \in 1..Len(menu)}) :
        Truthy(id) }

----------------------------------------------------------------------------
(* CustomerList *)

Notify(message, severity) == [message |-> message, severity |-> severity]

\* the end of a handler: the backend, the requests issued, the outcome the
\* handler branched on, and the component state and notification it leaves
End(r, ok, list, open, note) ==
    [w |-> r.w, reqs |-> r.reqs, ok |-> ok, list |-> list, open |-> open,
     note |-> note]

\* fetchCustomers
CustomerList_FetchCustomers ==
    /\ Ready
    /\ Run(LAMBDA oc : getCustomers(Start, oc),
           LAMBDA r : /\ Ran("CustomerList.fetchCustomers", NoArg, r, ListRet(r.ret))
                      /\ customers' = r.ret
                      /\ UNCHANGED <<selectedCustomer, clOpen, tlVars, notification,
                                     navVars, ldVars>>)

\* handleAddCustomer
CustomerList_handleAddCustomer ==
    /\ op = "none" /\ clOpen = "none"
    /\ selectedCustomer' = NoSelection(AnyCustomer)
    /\ clOpen' = "customerForm"
    /\ UNCHANGED <<apiVars, customers, tlVars, notification, navVars, ldVars>>

\* handleEditCustomer, handleAddTraining, handleDeleteClick: a button of a
\* grid row selects the row's customer and opens a dialog
CustomerList_handleRowButton ==
    \E i \in 1..Len(customers), dialog \in {"customerForm", "trainingForm", "delete"} :
        /\ op = "none" /\ clOpen = "none"
        /\ selectedCustomer' = Selected(customers[i])
        /\ clOpen' = dialog
        /\ UNCHANGED <<apiVars, customers, tlVars, notification, navVars, ldVars>>

\* onCancel of the open dialog
CustomerList_onCancel ==
    /\ op = "none" /\ clOpen # "none"
    /\ clOpen' = "none"
    /\ UNCHANGED <<apiVars, customers, selectedCustomer, tlVars, notification, navVars, ldVars>>

\* handleCustomerSave(customerData, isUpdate)
CustomerList_handleCustomerSave(st, customerData, isUpdate, oc) ==
    IF isUpdate /\ selectedCustomer.present
    THEN The({ IF u.ret
               THEN The({ End(l, TRUE, l.ret, "none",
                              Notify("Customer updated successfully", "success")) :
                          l \in {getCustomers(u, oc)} })
               ELSE End(u, FALSE, customers, "none",
                        Notify("Failed to update customer - the customer has been added as a new entry",
                               "warning")) :
               u \in {updateCustomer(st, [selectedCustomer.value EXCEPT
                                             !.attrs = customerData], oc)} })
    ELSE The({ IF a.ret
               THEN The({ End(l, TRUE, l.ret, "none",
                              Notify("Customer added successfully", "success")) :
                          l \in {getCustomers(a, oc)} })
               ELSE End(a, FALSE, customers, clOpen,
                        Notify("Failed to add customer", "error")) :
               a \in {addCustomer(st, MkCustomer(NoId, customerData, NoLinks), oc)} })

\* the customer form is submitted (CustomerFormDialog.handleSubmit calls
\* onSave(formData, !!customer))
CustomerList_CustomerSave ==
    \E customerData \in CustomerAttrs :
        /\ Ready
        /\ clOpen = "customerForm"
        /\ Run(LAMBDA oc : CustomerList_handleCustomerSave(
                               Start, customerData, selectedCustomer.present, oc),
               LAMBDA r : /\ Ran("CustomerList.handleCustomerSave",
                                 CustomerArg([selectedCustomer.value EXCEPT
                                                  !.attrs = customerData]),
                                 r, BoolRet(r.ok))
                          /\ customers' = r.list
                          /\ clOpen' = r.open
                          /\ notification' = r.note
                          /\ UNCHANGED <<selectedCustomer, tlVars, navVars, ldVars>>)

\* handleDeleteConfirm
CustomerList_handleDeleteConfirm(st, oc) ==
    IF selectedCustomer.present
    THEN The({ IF d.ret
               THEN The({ End(l, TRUE, l.ret, "none",
                              Notify("Customer deleted successfully", "success")) :
                          l \in {getCustomers(d, oc)} })
               ELSE End(d, FALSE, customers, "none",
                        Notify("Failed to delete customer - customer ID could not be determined",
                               "error")) :
               d \in {deleteCustomer(st, FALSE, EmptyStr, selectedCustomer.value, oc)} })
    ELSE End(st, FALSE, customers, "none",
             Notify("Cannot delete customer - no customer selected", "warning"))

CustomerList_DeleteConfirm ==
    /\ Ready
    /\ clOpen = "delete"
    /\ Run(LAMBDA oc : CustomerList_handleDeleteConfirm(Start, oc),
           LAMBDA r : /\ Ran("CustomerList.handleDeleteConfirm",
                             CustomerArg(selectedCustomer.value), r, BoolRet(r.ok))
                      /\ customers' = r.list
                      /\ clOpen' = r.open
                      /\ notification' = r.note
                      /\ UNCHANGED <<selectedCustomer, tlVars, navVars, ldVars>>)

\* handleTrainingSave(trainingData)
CustomerList_handleTrainingSave(st, attrs, customer, oc) ==
    The({ IF a.ret
          THEN End(a, TRUE, customers, "none",
                   Notify("Training added successfully", "success"))
          ELSE End(a, FALSE, customers, clOpen, notification) :
          a \in {addTraining(st, attrs, customer, oc)} })

\* the training form is submitted (TrainingFormDialog.handleSubmit)
CustomerList_TrainingSave ==
    \E attrs \in TrainingAttrs,
       customer \in FormCustomerIds(FALSE, AnyTraining, selectedCustomer.present,
                                    selectedCustomer.value, customers) :
        /\ Ready
        /\ clOpen = "trainingForm"
        /\ Run(LAMBDA oc : CustomerList_handleTrainingSave(Start, attrs, customer, oc),
               LAMBDA r : /\ Ran("CustomerList.handleTrainingSave",
                                 [StrArg(customer) EXCEPT !.training.attrs = attrs],
                                 r, BoolRet(r.ok))
                          /\ clOpen' = r.open
                          /\ notification' = r.note
                          /\ UNCHANGED <<customers, selectedCustomer, tlVars, navVars, ldVars>>)

CustomerListNext ==
    \/ CustomerList_FetchCustomers
    \/ CustomerList_handleAddCustomer
    \/ CustomerList_handleRowButton
    \/ CustomerList_onCancel
    \/ CustomerList_CustomerSave
    \/ CustomerList_DeleteConfirm
    \/ CustomerList_TrainingSave

----------------------------------------------------------------------------
(* TrainingList *)

\* the end of fetchData: both lists, fetched by Promise.all
FetchedData(r, ts, cs) == [w |-> r.w, reqs |-> r.reqs, trainings |-> ts, customers |-> cs]

\* fetchData
TrainingList_fetchData(st, oc) ==
    The({ The({ FetchedData(c, t.ret, c.ret) : c \in {getCustomers(t, oc)} }) :
          t \in {getTrainings(st, oc)} })

TrainingList_FetchData ==
    /\ Ready
    /\ Run(LAMBDA oc : TrainingList_fetchData(Start, oc),
           LAMBDA r : /\ Ran("TrainingList.fetchData", NoArg, r, ListRet(r.trainings))
                      /\ trainings' = r.trainings
                      /\ tlCustomers' = r.customers
                      /\ loaded' = {}
                      /\ UNCHANGED <<selectedTraining, tlOpen, pending, clVars,
                                     notification, navVars, ldVars>>)

\* handleAddTraining
TrainingList_handleAddTraining ==
    /\ op = "none" /\ tlOpen = "none"
    /\ selectedTraining' = NoSelection(AnyTraining)
    /\ tlOpen' = "trainingForm"
    /\ UNCHANGED <<apiVars, trainings, tlCustomers, lzVars, clVars, notification, navVars, ldVars>>

\* handleEditTraining, handleDeleteClick: a button of a grid row selects the
\* row's training and opens a dialog
TrainingList_handleRowButton ==
    \E i \in 1..Len(trainings), dialog \in {"trainingForm", "delete"} :
        /\ op = "none" /\ tlOpen = "none"
        /\ selectedTraining' = Selected(trainings[i])
        /\ tlOpen' = dialog
        /\ UNCHANGED <<apiVars, trainings, tlCustomers, lzVars, clVars, notification,
                       navVars, ldVars>>

\* onCancel of the open dialog
TrainingList_onCancel ==
    /\ op = "none" /\ tlOpen # "none"
    /\ tlOpen' = "none"
    /\ UNCHANGED <<apiVars, trainings, tlCustomers, selectedTraining, lzVars, clVars,
                   notification, navVars, ldVars>>

\* the end of a TrainingList handler
TlEnd(r, ok, rejected, ts, cs, open, note) ==
    [w |-> r.w, reqs |-> r.reqs, ok |-> ok, rejected |-> rejected,
     trainings |-> ts, customers |-> cs, open |-> open, note |-> note]

TlSettle_NoRefetch(r, open, okMessage, failMessage, oc) ==
    IF r.ret
    THEN TlEnd(r, TRUE, FALSE, trainings, tlCustomers, open.ok,
               Notify(okMessage, "success"))
    ELSE TlEnd(r, FALSE, FALSE, trainings, tlCustomers, open.fail,
               Notify(failMessage, "error"))

\* the tail of handleTrainingSave and handleDeleteConfirm: a success is
\* followed by fetchData and notified, a failure is notified
TlSettle(r, open, okMessage, failMessage, oc) ==
    IF r.ret
    THEN The({ TlEnd(f, TRUE, FALSE, f.trainings, f.customers, open.ok,
                     Notify(okMessage, "success")) :
               f \in {TrainingList_fetchData(r, oc)} })
    ELSE TlEnd(r, FALSE, FALSE, trainings, tlCustomers, open.fail,
               Notify(failMessage, "error"))

TrainingId_IdOnly(training) ==
    IF HasId(training) THEN NumToString(training.id[1]) ELSE Null

\* selectedTraining.id?.toString() || extractIdFromUrl(links?.self?.href || '')
TrainingId(training) ==
    IF HasId(training) THEN NumToString(training.id[1])
    ELSE extractIdFromUrl(IF Truthy(training.links.self) THEN training.links.self
                          ELSE EmptyStr)

\* handleTrainingSave(trainingData)
TrainingList_handleTrainingSave(st, attrs, customer, oc) ==
    IF selectedTraining.present
    THEN IF Truthy(TrainingId(selectedTraining.value))
         THEN The({ TlSettle(u, [ok |-> "none", fail |-> tlOpen],
                             "Training updated successfully",
                             "Failed to update training", oc) :
                    u \in {updateTraining(st, TrainingId(selectedTraining.value),
                                          attrs, customer, oc)} })
         ELSE TlEnd(st, FALSE, FALSE, trainings, tlCustomers, tlOpen,
                    Notify("Cannot update training - no valid ID available", "error"))
    ELSE The({ TlSettle(a, [ok |-> "none", fail |-> tlOpen],
                        "Training added successfully", "Failed to add training", oc) :
               a \in {addTraining(st, attrs, customer, oc)} })

\* the training form is submitted (TrainingFormDialog.handleSubmit); the
\* dialog is given selectedTraining and its embedded customer
TrainingList_TrainingSave ==
    \E attrs \in TrainingAttrs,
       customer \in FormCustomerIds(selectedTraining.present, selectedTraining.value,
                                    selectedTraining.present
                                        /\ selectedTraining.value.customer.present,
                                    selectedTraining.value.customer.value,
                                    tlCustomers) :
        /\ Ready
        /\ tlOpen = "trainingForm"
        /\ Run(LAMBDA oc : TrainingList_handleTrainingSave(Start, attrs, customer, oc),
               LAMBDA r : /\ Ran("TrainingList.handleTrainingSave",
                                 [StrArg(customer) EXCEPT
                                      !.training = [selectedTraining.value EXCEPT
                                                        !.attrs = attrs]],
                                 r, BoolRet(r.ok))
                          /\ trainings' = r.trainings
                          /\ tlCustomers' = r.customers
                          /\ tlOpen' = r.open
                          /\ notification' = r.note
                          /\ loaded' = (IF r.ok THEN {} ELSE loaded)
                          /\ UNCHANGED <<selectedTraining, pending, clVars, navVars, ldVars>>)

\* the DELETE that handleDeleteConfirm issues itself for a training with an
\* id: fetch(...).then(response => response.ok), outside any try
DeleteById(st, training, oc) ==
    The({ [w |-> r.w, reqs |-> r.reqs, ret |-> Ok(r), thrown |-> r.thrown] :
          r \in {Fetch(st, Request("DELETE",
                                   Join(Join(API_BASE_URL, SegTrainings),
                                        NumToString(training.id[1])), NoBody), oc)} })

\* handleDeleteConfirm
TrainingList_handleDeleteConfirm(st, oc) ==
    IF ~selectedTraining.present
    THEN TlEnd(st, FALSE, FALSE, trainings, tlCustomers, "none",
               Notify("No training selected to delete", "warning"))
    ELSE IF HasId(selectedTraining.value)
    THEN The({ IF d.thrown
               THEN TlEnd(d, FALSE, TRUE, trainings, tlCustomers, tlOpen, notification)
               ELSE TlSettle(d, [ok |-> "none", fail |-> "none"],
                             "Training deleted successfully",
                             "Failed to delete training", oc) :
               d \in {DeleteById(st, selectedTraining.value, oc)} })
    ELSE IF Truthy(selectedTraining.value.links.self)
    THEN The({ TlSettle(d, [ok |-> "none", fail |-> "none"],
                        "Training deleted successfully", "Failed to delete training", oc) :
               d \in {deleteTraining(st, FALSE, EmptyStr, selectedTraining.value, oc)} })
    ELSE TlEnd(st, FALSE, FALSE, trainings, tlCustomers, "none",
               Notify("Failed to delete training", "error"))

TrainingList_DeleteConfirm ==
    /\ Ready
    /\ tlOpen = "delete"
    /\ Run(LAMBDA oc : TrainingList_handleDeleteConfirm(Start, oc),
           LAMBDA r : /\ Ran("TrainingList.handleDeleteConfirm",
                             TrainingArg(selectedTraining.value), r,
                             [BoolRet(r.ok) EXCEPT !.rejected = r.rejected])
                      /\ trainings' = r.trainings
                      /\ tlCustomers' = r.customers
                      /\ tlOpen' = r.open
                      /\ notification' = r.note
                      /\ loaded' = (IF r.ok THEN {} ELSE loaded)
                      /\ UNCHANGED <<selectedTraining, pending, clVars, navVars, ldVars>>)

TrainingListNext ==
    \/ TrainingList_FetchData
    \/ TrainingList_handleAddTraining
    \/ TrainingList_handleRowButton
    \/ TrainingList_onCancel
    \/ TrainingList_TrainingSave
    \/ TrainingList_DeleteConfirm
    \/ Idle

\* The trainings that fetchCustomerForTraining maps over.  columnDefs is
\* memoized with no dependencies, so the Customer column's valueGetter keeps
\* the fetchCustomerForTraining of the first render, and that one closes
\* over the trainings of the first render: the initial state.
ColumnDefsTrainings == <<>>

\* trainings.map(t => t.links?.self.href === training.links?.self.href
\*                    ? { ...t, customer: response.data } : t)
MergeCustomer(ts, self, data) ==
    [i \in 1..Len(ts) |->
        IF ts[i].links.present /\ ts[i].links.self = self
        THEN [ts[i] EXCEPT !.customer = [present |-> TRUE, value |-> data]]
        ELSE ts[i]]

\* whether the Customer column's valueGetter calls fetchCustomerForTraining
\* for training t, and fetchCustomerForTraining issues its request
FetchesCustomer(t) ==
    /\ ~(t.customer.present /\ t.customer.value.attrs.firstname # "")
    /\ t.links.present /\ Truthy(t.links.customer)
    /\ ~t.customer.present

\* one lazy fetch in flight: the training's own address, the address asked
LazyFetch(t) == [self |-> t.links.self, url |-> t.links.customer]

DropAt(seq, k) == [i \in 1..(Len(seq) - 1) |-> IF i < k THEN seq[i] ELSE seq[i + 1]]

AfterLazyFetch_SetsOnFailure(current, fetch, r) ==
    IF Ok(r) THEN MergeCustomer(ColumnDefsTrainings, fetch.self, r.items[1])
    ELSE MergeCustomer(ColumnDefsTrainings, fetch.self, AnyCustomer)

\* the working set after the axios.get of fetch settled with r, current
\* being the working set before: setTrainings(updatedTrainings) runs only
\* when the get resolved
AfterLazyFetch(current, fetch, r) ==
    IF Ok(r) THEN MergeCustomer(ColumnDefsTrainings, fetch.self, r.items[1])
    ELSE current

\* The grid derives the Customer column of a row: the valueGetter answers
\* 'Loading...' and fetchCustomerForTraining issues axios.get and awaits.
\* (For the other rows the valueGetter answers a string and changes nothing.)
TrainingList_CustomerValueGetter ==
    /\ Len(pending) < MaxPending
    /\ \E i \in 1..Len(trainings) :
         /\ FetchesCustomer(trainings[i])
         /\ pending' = Append(pending, LazyFetch(trainings[i]))
    /\ UNCHANGED <<apiVars, trainings, tlCustomers, selectedTraining, tlOpen, loaded,
                   clVars, notification, navVars, ldVars>>

\* axios.get settles for one of the fetches in flight, in any order: it
\* resolves with a 2xx answer's document and the rest of
\* fetchCustomerForTraining runs, or it rejects and the catch logs.
TrainingList_CustomerResponse ==
    \E k \in 1..Len(pending) : \E oc \in TransportOutcomes :
      \E r \in {Fetch(Start, Request("GET", pending[k].url, NoBody),
                       OutcomesFrom(<<oc>>))} :
        \E e \in {IF Ok(r) THEN Done(r, TRUE) ELSE Catch(r, FALSE)} :
          /\ pending' = DropAt(pending, k)
          /\ trainings' = AfterLazyFetch(trainings, pending[k], r)
          /\ loaded' = (IF Ok(r) THEN loaded \cup {pending[k].self} ELSE loaded)
          /\ op' = "fetchCustomerForTraining"
          /\ arg' = StrArg(pending[k].self)
          /\ reqs' = e.reqs
          /\ ret' = Settled(e, BoolRet(e.ret))
          /\ UNCHANGED <<w, calls, tlCustomers, selectedTraining, tlOpen, clVars,
                         notification, navVars, ldVars>>

\* a screen that is not mounted holds the state it is constructed with
CustomerListUnmounted ==
    /\ customers = <<>>
    /\ selectedCustomer = NoSelection(AnyCustomer)
    /\ clOpen = "none"

TrainingListUnmounted ==
    /\ trainings = <<>>
    /\ tlCustomers = <<>>
    /\ selectedTraining = NoSelection(AnyTraining)
    /\ tlOpen = "none"
    /\ pending = <<>>
    /\ loaded = {}

\* the router renders one list screen at a time: the handlers of a screen
\* run while the other screen is not mounted
RoutedNext ==
    \/ TrainingListUnmounted /\ CustomerList_FetchCustomers
    \/ TrainingListUnmounted /\ CustomerList_handleAddCustomer
    \/ TrainingListUnmounted /\ CustomerList_handleRowButton
    \/ TrainingListUnmounted /\ CustomerList_onCancel
    \/ TrainingListUnmounted /\ CustomerList_CustomerSave
    \/ TrainingListUnmounted /\ CustomerList_DeleteConfirm
    \/ TrainingListUnmounted /\ CustomerList_TrainingSave
    \/ CustomerListUnmounted /\ TrainingList_FetchData
    \/ CustomerListUnmounted /\ TrainingList_handleAddTraining
    \/ CustomerListUnmounted /\ TrainingList_handleRowButton
    \/ CustomerListUnmounted /\ TrainingList_onCancel
    \/ CustomerListUnmounted /\ TrainingList_TrainingSave
    \/ CustomerListUnmounted /\ TrainingList_DeleteConfirm
    \/ Idle

\* the training screen with its lazily loaded Customer column
LazyNext ==
    \/ TrainingList_FetchData
    \/ TrainingList_CustomerValueGetter
    \/ TrainingList_CustomerResponse
    \/ Idle

\* the Reset Database button: setResetDialogOpen(true)
Navigation_openResetDialog ==
    /\ ~resetDialogOpen
    /\ resetDialogOpen' = TRUE
    /\ UNCHANGED <<apiVars, clVars, tlVars, notification, ldVars>>

\* the confirmation's onCancel: setResetDialogOpen(false)
Navigation_onCancel ==
    /\ resetDialogOpen
    /\ resetDialogOpen' = FALSE
    /\ UNCHANGED <<apiVars, clVars, tlVars, notification, ldVars>>

\* handleResetDatabase: the dialog closes; a true result is notified as
\* success, a false one and a rejection as error
Navigation_handleResetDatabase(st, oc) ==
    The({ IF ~d.rejected /\ d.ret
          THEN End(d, TRUE, customers, "none",
                   Notify(
  "Database reset successful. Please refresh the page to see the changes.",
                          "success"))
          ELSE End(d, FALSE, customers, "none",
                   Notify("Database reset failed.", "error")) :
          d \in {resetDatabase(st, oc)} })

\* the confirmation's onConfirm
Navigation_ResetDatabase ==
    /\ Ready
    /\ resetDialogOpen
    /\ Run(LAMBDA oc : Navigation_handleResetDatabase(Start, oc),
           LAMBDA r : /\ Ran("Navigation.handleResetDatabase", NoArg, r, BoolRet(r.ok))
                      /\ resetDialogOpen' = FALSE
                      /\ notification' = r.note
                      /\ UNCHANGED <<clVars, tlVars, ldVars>>)

NavigationNext ==
    \/ Navigation_openResetDialog
    \/ Navigation_onCancel
    \/ Navigation_ResetDatabase

----------------------------------------------------------------------------
(* List fetches in flight: fetchCustomers, fetchData and fetchTrainings as *)
(* they overlap                                                            *)

\* whether screen s holds the state it is constructed with
Unmounted(s) ==
    /\ ~isLoading[s]
    /\ CASE s = "CustomerList" -> CustomerListUnmounted
         [] s = "TrainingList" -> TrainingListUnmounted
         [] s = "TrainingCalendar" -> calTrainings = <<>>
         [] OTHER -> statTrainings = <<>>

\* screen s is the one the router renders
OnlyMounted(s) ==
    /\ \A t \in Screens \ {s} : Unmounted(t)
    /\ \A k \in 1..Len(fetching) : fetching[k].screen = s

\* a list fetch in flight: its screen, whether the server has answered, and
\* the requests and the lists of the answer
Loading(s) ==
    [screen |-> s, served |-> FALSE, reqs |-> <<>>, list |-> <<>>, customers |-> <<>>]

Loaded(s, reqs_, list, customers_) ==
    [screen |-> s, served |-> TRUE, reqs |-> reqs_, list |-> list,
     customers |-> customers_]

\* what the list fetch of screen s awaits: getCustomers(), Promise.all of
\* getTrainings() and getCustomers(), or getTrainings()
ListFetch(s, st, oc) ==
    IF s = "CustomerList"
    THEN The({ Loaded(s, r.reqs, r.ret, <<>>) : r \in {getCustomers(st, oc)} })
    ELSE IF s = "TrainingList"
    THEN The({ Loaded(s, r.reqs, r.trainings, r.customers) :
               r \in {TrainingList_fetchData(st, oc)} })
    ELSE The({ Loaded(s, r.reqs, r.ret, <<>>) : r \in {getTrainings(st, oc)} })

\* the list fetch of a screen is called: by the mount effect, by the
\* calendar's interval, or by a handler after its write.  Statistics calls
\* it from the mount effect only.
Load_Start ==
    \E s \in Screens :
        /\ op = "none"
        /\ Len(fetching) < MaxFetching
        /\ OnlyMounted(s)
        /\ s = "Statistics" => (fetching = <<>> /\ statTrainings = <<>>)
        /\ fetching' = Append(fetching, Loading(s))
        /\ isLoading' = [isLoading EXCEPT ![s] = TRUE]
        /\ UNCHANGED <<apiVars, clVars, tlVars, notification, navVars, calTrainings,
                       statTrainings>>

\* the outcomes drawn for the requests of a list fetch in flight: answered,
\* or failed (the API client resolves to the same empty list for every
\* failure)
LoadOutcomes == {"srv", "err"}

\* the server answers the requests of one fetch in flight, or they fail
Load_Served ==
    \E k \in 1..Len(fetching) : \E o1, o2 \in LoadOutcomes :
      \E r \in {ListFetch(fetching[k].screen, Start, OutcomesFrom(<<o1, o2>>))} :
        /\ ~fetching[k].served
        /\ Len(r.reqs) = 1 => o2 = "srv"
        /\ fetching' = [fetching EXCEPT ![k] = r]
        /\ UNCHANGED <<apiVars, clVars, tlVars, notification, navVars, isLoading,
                       calTrainings, statTrainings>>

Applies_LatestOnly(k) == k = Len(fetching)

\* whether the result of fetch k is applied when it arrives: the setters are
\* called unconditionally, no fetch is cancelled or superseded
Applies(k) == TRUE

SettledOp(s) ==
    CASE s = "CustomerList" -> "CustomerList.fetchCustomers settled"
      [] s = "TrainingList" -> "TrainingList.fetchData settled"
      [] s = "TrainingCalendar" -> "TrainingCalendar.fetchTrainings settled"
      [] OTHER -> "Statistics.fetchTrainings settled"

\* the awaited result of one fetch arrives, in any order: the setters run,
\* then finally setIsLoading(false)
Load_Arrive ==
    \E k \in 1..Len(fetching) : \E f \in {fetching[k]} :
        /\ f.served
        /\ fetching' = DropAt(fetching, k)
        /\ isLoading' = [isLoading EXCEPT ![f.screen] = FALSE]
        /\ customers' = IF f.screen = "CustomerList" /\ Applies(k)
                        THEN f.list ELSE customers
        /\ trainings' = IF f.screen = "TrainingList" /\ Applies(k)
                        THEN f.list ELSE trainings
        /\ tlCustomers' = IF f.screen = "TrainingList" /\ Applies(k)
                          THEN f.customers ELSE tlCustomers
        /\ loaded' = IF f.screen = "TrainingList" /\ Applies(k) THEN {} ELSE loaded
        /\ calTrainings' = IF f.screen = "TrainingCalendar" /\ Applies(k)
                           THEN f.list ELSE calTrainings
        /\ statTrainings' = IF f.screen = "Statistics" /\ Applies(k)
                            THEN f.list ELSE statTrainings
        /\ op' = SettledOp(f.screen)
        /\ arg' = NoArg
        /\ reqs' = f.reqs
        /\ ret' = ListRet(f.list)
        /\ UNCHANGED <<w, calls, selectedCustomer, clOpen, selectedTraining, tlOpen,
                       pending, notification, navVars>>

\* the requests by which another client of the shared backend changes it
BackendChanges ==
    {Request("DELETE", Join(ENDPOINTS.trainings, <<"1">>), NoBody),
     Request("DELETE", Join(ENDPOINTS.customers, <<"2">>), NoBody)}

\* the backend changes while fetches are in flight
OtherClient ==
    \E req \in BackendChanges : \E a \in {Serve(w, req)} :
        /\ a.w # w
        /\ a.w.nid <= MaxId + 1
        /\ w' = a.w
        /\ UNCHANGED <<calls, op, arg, reqs, ret, clVars, tlVars, notification, navVars,
                       ldVars>>

LoadNext ==
    \/ Load_Start
    \/ Load_Served
    \/ Load_Arrive
    \/ OtherClient
    \/ Idle

----------------------------------------------------------------------------
(* Editing a row of the training grid *)

\* the rows the grid can hold: getTrainings hands on the decoded array as it
\* is, and a Training's id and links are both optional.  Each row embeds its
\* customer, without which the form cannot be submitted.
EditableRows ==
    { MkTraining(t.id, t.attrs,
                 Selected(MkCustomer(<<1>>, CustomerOf("ann@x", "1"), NoLinks)),
                 t.links) : t \in TrainingInputs }

\* handleEditTraining(training)
TrainingList_handleEditTraining ==
    \E training \in EditableRows :
        /\ op = "none" /\ tlOpen = "none"
        /\ selectedTraining' = Selected(training)
        /\ tlOpen' = "trainingForm"
        /\ UNCHANGED <<apiVars, trainings, tlCustomers, lzVars, clVars, notification,
                       navVars, ldVars>>

EditNext ==
    \/ TrainingList_FetchData
    \/ TrainingList_handleEditTraining
    \/ TrainingList_onCancel
    \/ TrainingList_TrainingSave
    \/ Idle

----------------------------------------------------------------------------
(* deleteCustomer on customers that have to be looked up *)

\* customers without self address: with no other address, or with the
\* customer link of a record of the backend
LookupCustomers ==
    { MkCustomer(NoId, attrs, MkLinks(EmptyStr, customer, EmptyStr)) :
        attrs \in CustomerAttrs,
        customer \in {EmptyStr, CustomerUrlOf(API_BASE_URL, 1),
                      CustomerUrlOf(ALT_BASE_URL, 2)} }

DeleteCustomerByLookup ==
    \E c \in LookupCustomers :
        /\ Ready
        /\ Run(LAMBDA oc : deleteCustomer(Start, FALSE, EmptyStr, c, oc),
               LAMBDA r : /\ Ran("deleteCustomer", CustomerArg(c), r,
                                 Settled(r, BoolRet(r.ret)))
                          /\ UNCHANGED <<clVars, tlVars, notification, navVars, ldVars>>)

LookupNext ==
    \/ DeleteCustomerByLookup
    \/ Idle

ScreenNext == CustomerListNext \/ TrainingListNext \/ NavigationNext

\* the API client, called with any argument
Next == ApiNext

Spec == Init /\ [][Next]_vars

\* the identity resolver alone
ResolverSpec == Init /\ [][ResolverNext]_vars

\* the screens: the API client as the handlers call it
ScreenSpec == Init /\ [][ScreenNext]_vars

\* the training screen's lazy customer loader
LazySpec == Init /\ [][LazyNext]_vars

\* the list screens, one mounted at a time
RoutedSpec == Init /\ [][RoutedNext]_vars

\* the list fetches of the screens as they overlap
LoadSpec == Init /\ [][LoadNext]_vars

\* the training form, editing a row of the grid
EditSpec == Init /\ [][EditNext]_vars

\* deleteCustomer on customers it has to look up
LookupSpec == Init /\ [][LookupNext]_vars

----------------------------------------------------------------------------
(* Properties *)

\* whether the operation carried out last issued a request with method m
Issued(m) == \E i \in 1..Len(reqs) : reqs[i].method = m

\* the request was answered with a success status and the server's document
Succeeded(req) == req.status \in 200..299 /\ req.payload = "json"

\* an entity without a numeric id and without a non-empty link address
Bare(e) ==
    /\ ~HasId(e)
    /\ ~Truthy(e.links.self)
    /\ ~Truthy(e.links.customer)
    /\ ~Truthy(e.links.other)

\* the self addresses of the records of backend b that have the firstname,
\* lastname and email of customer and are served with links
MatchedSelf(b, customer) ==
    { CustomerHal(b, b.cdb[i].id).self :
        i \in { j \in 1..Len(b.cdb) :
                  Matches(b.cdb[j], customer) /\ b.cdb[j].linked } }

\* C1 as stated: for an entity with no numeric id and no link address,
\* updateCustomer, deleteCustomer and deleteTraining return false and issue
\* no request at all.
C1_NoRequestWhenBare ==
    /\ (op \in {"updateCustomer", "deleteCustomer"} /\ ~arg.isString
          /\ Bare(arg.customer)) => (~ret.ok /\ reqs = <<>>)
    /\ (op = "deleteTraining" /\ ~arg.isString /\ Bare(arg.training))
          => (~ret.ok /\ reqs = <<>>)

C1_BareStep ==
    /\ (op' = "deleteTraining" /\ ~arg'.isString /\ Bare(arg'.training))
          => (~ret'.ok /\ reqs' = <<>>)
    /\ (op' \in {"updateCustomer", "deleteCustomer"} /\ ~arg'.isString
          /\ Bare(arg'.customer))
          => /\ Len(reqs') \in {1, 2}
             /\ reqs'[1].method = "GET" /\ reqs'[1].url = ENDPOINTS.customers
             /\ (op' = "updateCustomer") => (Len(reqs') = 2)
             /\ (Len(reqs') = 1) => ~ret'.ok
             /\ (Len(reqs') = 2) =>
                  IF reqs'[2].url \in MatchedSelf(w, arg'.customer)
                       /\ Succeeded(reqs'[1])
                  THEN /\ reqs'[2].method =
                            (IF op' = "updateCustomer" THEN "PUT" ELSE "DELETE")
                       /\ ret'.ok = Succeeded(reqs'[2])
                  ELSE /\ op' = "updateCustomer"
                       /\ reqs'[2].method = "POST"
                       /\ reqs'[2].url = ENDPOINTS.customers
                       /\ ret'.ok = (reqs'[2].status = 201)

\* C1 amended: for an entity with no numeric id and no link address,
\* deleteTraining returns false and issues no request; updateCustomer and
\* deleteCustomer first GET the customer collection to look for a record with
\* the same firstname, lastname and email.  When the lookup yields a record
\* with a self address, one PUT (update) or DELETE (delete) goes to that
\* address and its success is returned.  Otherwise deleteCustomer returns
\* false after the GET alone, and updateCustomer POSTs the customer to the
\* collection and returns whether that was answered 201.
C1_BareEntity == [][C1_BareStep]_vars

\* a bare customer was updated by a successful POST after the lookup GET
C1_BareUpdateCreated ==
    /\ op = "updateCustomer" /\ Bare(arg.customer)
    /\ Len(reqs) = 2 /\ reqs[1].method = "GET" /\ reqs[2].method = "POST"
    /\ ret.ok

\* C2: updateCustomer targets (1) the entity's non-empty self address, (2)
\* otherwise base/customers/<id> for its numeric id, with one PUT and no
\* lookup GET or POST, (3) otherwise a record found by attributes, (4)
\* otherwise it creates.
C2_UpdateTargetOrder ==
    op = "updateCustomer" =>
        IF Truthy(arg.customer.links.self)
        THEN /\ Len(reqs) = 1 /\ reqs[1].method = "PUT"
             /\ reqs[1].url = arg.customer.links.self
        ELSE IF HasId(arg.customer)
        THEN /\ Len(reqs) = 1 /\ reqs[1].method = "PUT"
             /\ reqs[1].url = Join(ENDPOINTS.customers,
                                   NumToString(arg.customer.id[1]))
        ELSE reqs[Len(reqs)].method \in {"PUT", "POST"}

\* a customer with a numeric id and no self address was updated
C2_UpdateById ==
    /\ op = "updateCustomer"
    /\ HasId(arg.customer) /\ ~Truthy(arg.customer.links.self)

\* the create fallback inserted a record
Inserted == \E i \in 1..Len(reqs) : reqs[i].method = "POST" /\ reqs[i].status = 201

\* C3: when an update made on the customer list screen ends in the create
\* fallback, the screen does not show 'Customer updated successfully', and it
\* shows the 'added as a new entry' warning only when a record was inserted.
C3_InsertIsReported ==
    (op = "CustomerList.handleCustomerSave" /\ selectedCustomer.present) =>
        /\ Inserted => notification.message # "Customer updated successfully"
        /\ (notification.message =
              "Failed to update customer - the customer has been added as a new entry")
             => Inserted

\* an update made on the customer list screen inserted a record
C3_UpdateInserted ==
    /\ op = "CustomerList.handleCustomerSave" /\ selectedCustomer.present
    /\ Inserted
    /\ notification.message = "Customer updated successfully"

C4_DeleteStep ==
    op' \in {"deleteCustomer", "deleteTraining"} =>
        /\ \A i \in 1..Len(reqs') : reqs'[i].method \notin {"POST", "PUT"}
        /\ (op' = "deleteTraining" /\ ~arg'.isString
              /\ ~Truthy(arg'.training.links.self) /\ ~HasId(arg'.training))
             => (~ret'.ok /\ \A i \in 1..Len(reqs') : reqs'[i].method # "DELETE")
        /\ (op' = "deleteCustomer" /\ ~arg'.isString
              /\ ~Truthy(arg'.customer.links.self)
              /\ \A i \in 1..Len(w.cdb) : ~Matches(w.cdb[i], arg'.customer))
             => (~ret'.ok /\ \A i \in 1..Len(reqs') : reqs'[i].method # "DELETE")

\* C4: deleteCustomer and deleteTraining never issue a POST or a PUT, and
\* when no address can be determined (the argument is not a string, has no
\* self address and, for a training, no numeric id or, for a customer, no
\* server record has its firstname, lastname and email) they return false
\* and send no DELETE.
C4_DeleteNeverGuesses == [][C4_DeleteStep]_vars

\* deleteCustomer looked a customer up by attributes, found no record and
\* returned false
C4_NoMatchNoDelete ==
    /\ op = "deleteCustomer" /\ ~arg.isString
    /\ ~Truthy(arg.customer.links.self)
    /\ Len(reqs) = 1 /\ reqs[1].method = "GET" /\ reqs[1].status = 200
    /\ reqs[1].url = ENDPOINTS.customers
    /\ Len(reqs[1].items) > 0
    /\ \A i \in 1..Len(reqs[1].items) : ~Matches(reqs[1].items[i], arg.customer)
    /\ ~ret.ok

\* the relative address "customers/5"
RelativeRef == Join(SegCustomers, <<"5">>)

\* C5: addTraining with the customer reference "customers/5" POSTs a body
\* whose customer field is exactly <base>/customers/5.
C5_RelativeReference ==
    (op = "addTraining" /\ arg.str = RelativeRef) =>
        /\ Len(reqs) = 1 /\ reqs[1].method = "POST"
        /\ reqs[1].body.customer = Join(API_BASE_URL, RelativeRef)

\* addTraining was called with the customer reference "customers/5"
C5_RelativeReferenceSent ==
    /\ op = "addTraining" /\ arg.str = RelativeRef
    /\ Len(reqs) = 1
\* C6: the customer field of the body that addTraining and updateTraining
\* send is a full address: a reference that is a full address is sent
\* unchanged, a bare numeric id k is sent as base/customers/k, and a
\* reference that is no full address is never sent as it was given.
C6_CustomerFieldIsAddress ==
    op \in {"addTraining", "updateTraining"} =>
        /\ Len(reqs) = 1
        /\ reqs[1].method = (IF op = "addTraining" THEN "POST" ELSE "PUT")
        /\ StartsWith(reqs[1].body.customer, HttpPrefix)
        /\ StartsWith(arg.str, HttpPrefix) => reqs[1].body.customer = arg.str
        /\ IsNumeral(arg.str)
             => reqs[1].body.customer = Join(Join(API_BASE_URL, SegCustomers), arg.str)
        /\ ~StartsWith(arg.str, HttpPrefix) => reqs[1].body.customer # arg.str

\* updateTraining was given a bare numeric id and sent the address made of it
C6_BareIdSentAsAddress ==
    /\ op = "updateTraining" /\ arg.str = <<"1">>
    /\ Len(reqs) = 1
    /\ reqs[1].body.customer = CustomerUrlOf(API_BASE_URL, 1)

\* the first request of the handler carried out last goes to address url
FirstRequestTo(url) == Len(reqs) >= 1 /\ reqs[1].url = url

\* C7: an entity's non-empty self address is used unchanged to address it,
\* before a numeric id the entity also carries, by the update and delete
\* handlers of the customer list and of the training list.
C7_SelfAddressFirst ==
    /\ (op \in {"TrainingList.handleTrainingSave", "TrainingList.handleDeleteConfirm"}
          /\ selectedTraining.present /\ Truthy(selectedTraining.value.links.self))
         => FirstRequestTo(selectedTraining.value.links.self)
    /\ (op \in {"CustomerList.handleCustomerSave", "CustomerList.handleDeleteConfirm"}
          /\ selectedCustomer.present /\ Truthy(selectedCustomer.value.links.self))
         => FirstRequestTo(selectedCustomer.value.links.self)

\* the training list deleted a training that has a self address and an id
C7_DeletedTrainingWithBoth ==
    /\ op = "TrainingList.handleDeleteConfirm"
    /\ Truthy(selectedTraining.value.links.self) /\ HasId(selectedTraining.value)
    /\ Len(reqs) >= 1 /\ reqs[1].method = "DELETE"

\* C8: for an entity with a numeric id and no self address the resolved
\* address is base/<collection>/<id>: getCustomerId yields the id,
\* updateCustomer targets base/customers/<id> and deleteTraining targets
\* base/trainings/<id>.
C8_IdResolves ==
    /\ (op = "getCustomerId" /\ ~arg.isString /\ HasId(arg.customer)
          /\ ~Truthy(arg.customer.links.self))
         => ret.str = NumToString(arg.customer.id[1])
    /\ (op = "updateCustomer" /\ HasId(arg.customer)
          /\ ~Truthy(arg.customer.links.self))
         => FirstRequestTo(Join(Join(API_BASE_URL, SegCustomers),
                                NumToString(arg.customer.id[1])))
    /\ (op = "deleteTraining" /\ ~arg.isString /\ HasId(arg.training)
          /\ ~Truthy(arg.training.links.self))
         => FirstRequestTo(Join(Join(API_BASE_URL, SegTrainings),
                                NumToString(arg.training.id[1])))

\* getCustomerId was given a customer with a numeric id and no link address
C8_ResolvedIdOnly ==
    /\ op = "getCustomerId" /\ ~arg.isString
    /\ HasId(arg.customer) /\ Bare([arg.customer EXCEPT !.id = NoId])

\* the address getCustomerId reads from a customer: self, else the customer
\* link, each when non-empty
ChosenLink(customer) ==
    IF Truthy(customer.links.self) THEN customer.links.self
    ELSE IF Truthy(customer.links.customer) THEN customer.links.customer
    ELSE EmptyStr

\* the string the resolver operation carried out last worked on
Resolved == IF arg.isString THEN arg.str ELSE ChosenLink(arg.customer)

EndsWithSlash(s) == Len(s) > 0 /\ s[Len(s)] = "/"

\* C9 as stated: extractIdFromUrl and getCustomerId return null exactly for
\* an undefined or empty string and for a customer whose self and customer
\* link addresses are absent or empty; for every non-empty address they
\* return a non-null identifier.
C9_NullOnlyWithoutAddress ==
    op \in {"extractIdFromUrl", "getCustomerId"} =>
        (ret.str = Null <=> ~Truthy(Resolved))

\* C9 amended: extractIdFromUrl and getCustomerId return null exactly when
\* the string (for a customer: its self address or, when that is absent or
\* empty, its customer link address) is undefined, empty or ends in "/";
\* otherwise they return the non-empty text after its last "/".
C9_NullWithoutLastSegment ==
    op \in {"extractIdFromUrl", "getCustomerId"} =>
        /\ ret.str = Null <=> (~Truthy(Resolved) \/ EndsWithSlash(Resolved))
        /\ ret.str # Null =>
             /\ ret.str # EmptyStr
             /\ \A i \in 1..Len(ret.str) : ret.str[i] # "/"
             /\ \/ Resolved = ret.str
                \/ /\ Len(Resolved) > Len(ret.str)
                   /\ SubSeq(Resolved, Len(Resolved) - Len(ret.str), Len(Resolved))
                        = Slash \o ret.str

\* extractIdFromUrl returned null for a non-empty address that ends in "/"
C9_TrailingSlashIsNull ==
    /\ op = "extractIdFromUrl"
    /\ Truthy(arg.str) /\ EndsWithSlash(arg.str)
    /\ ret.str = Null

\* the records of the backend with the firstname, lastname and email of
\* customer
MatchingRecords(b, customer) ==
    { i \in 1..Len(b.cdb) : Matches(b.cdb[i], customer) }

C10_MatchStep ==
    (/\ op' = "updateCustomer"
     /\ ~HasId(arg'.customer) /\ ~Truthy(arg'.customer.links.self)
     /\ Cardinality(MatchingRecords(w, arg'.customer)) = 1
     /\ \A i \in 1..Len(reqs') : /\ reqs'[i].status \notin {0, 500}
                                  /\ reqs'[i].payload = "json")
    => /\ ret'.ok
       /\ Cardinality({i \in 1..Len(reqs') : reqs'[i].method = "PUT"}) = 1
       /\ \A i \in 1..Len(reqs') :
            /\ reqs'[i].method # "POST"
            /\ reqs'[i].method = "PUT"
                 => \E j \in MatchingRecords(w, arg'.customer) :
                      reqs'[i].url = CustomerHal(w, w.cdb[j].id).self

C10_LinkedMatchStep ==
    (/\ op' = "updateCustomer"
     /\ ~HasId(arg'.customer) /\ ~Truthy(arg'.customer.links.self)
     /\ ~Truthy(arg'.customer.links.customer)
     /\ Cardinality(MatchingRecords(w, arg'.customer)) = 1
     /\ \A j \in MatchingRecords(w, arg'.customer) : w.cdb[j].linked
     /\ Len(reqs') >= 1 /\ Succeeded(reqs'[1]))
    => /\ Len(reqs') = 2
       /\ reqs'[1].method = "GET" /\ reqs'[1].url = ENDPOINTS.customers
       /\ reqs'[2].method = "PUT"
       /\ \E j \in MatchingRecords(w, arg'.customer) :
            reqs'[2].url = CustomerHal(w, w.cdb[j].id).self
       /\ ret'.ok = Succeeded(reqs'[2])

MatchingAddresses(b, customer) ==
    { CustomerUrlOf(base, b.cdb[i].id) :
        base \in {API_BASE_URL, ALT_BASE_URL}, i \in MatchingRecords(b, customer) }

C11_AmbiguousStep ==
    (/\ op' \in {"findCustomerByData", "updateCustomer", "deleteCustomer"}
     /\ ~arg'.isString /\ Bare(arg'.customer)
     /\ Cardinality(MatchingRecords(w, arg'.customer)) # 1)
    => /\ (op' = "findCustomerByData") => ~ret'.found
       /\ \A i \in 1..Len(reqs') :
            reqs'[i].method \in {"PUT", "DELETE"}
              => reqs'[i].url \notin MatchingAddresses(w, arg'.customer)

\* C11: when zero or several server records have the entity's firstname,
\* lastname and email, findCustomerByData reports not found, and
\* updateCustomer and deleteCustomer send no PUT or DELETE to one of several
\* records that share them.
C11_AmbiguousIsNotFound == [][C11_AmbiguousStep]_vars

\* findCustomerByData looked up a customer whose attributes two listed
\* records share
C11_TwoCandidates ==
    /\ op = "findCustomerByData" /\ Bare(arg.customer)
    /\ Len(reqs) = 1 /\ Succeeded(reqs[1])
    /\ Cardinality({ i \in 1..Len(reqs[1].items) :
                       Matches(reqs[1].items[i], arg.customer) }) = 2
\* C12: a delete repeated on the same entity after the first call deleted
\* the server record reports failure (returns false) and does not throw,
\* for deleteCustomer and deleteTraining.
C12_SecondDeleteFails ==
    op \in {"deleteCustomer again", "deleteTraining again"}
        => (~ret.ok /\ ~ret.rejected)

\* a delete was repeated and its DELETE was answered by the server with a
\* non-success status
C12_RepeatedDeleteRefused ==
    /\ op \in {"deleteCustomer again", "deleteTraining again"}
    /\ Len(reqs) = 1 /\ reqs[1].method = "DELETE" /\ reqs[1].status = 404
    /\ ~ret.ok
\* C13: after addCustomer(c) reports success, a following getCustomers whose
\* GET is answered successfully returns a sequence that holds an entity equal
\* to c on firstname, lastname, streetaddress, postcode, city, email and
\* phone; after addTraining reports success, a following getTrainings whose
\* GET is answered successfully holds a training with the same date, duration
\* and activity.
C13_CreateListRoundTrip ==
    /\ (op = "getCustomers after addCustomer" /\ Succeeded(reqs[1]))
         => \E i \in 1..Len(ret.list) :
              /\ ret.list[i].attrs.firstname = arg.customer.attrs.firstname
              /\ ret.list[i].attrs.lastname = arg.customer.attrs.lastname
              /\ ret.list[i].attrs.streetaddress = arg.customer.attrs.streetaddress
              /\ ret.list[i].attrs.postcode = arg.customer.attrs.postcode
              /\ ret.list[i].attrs.city = arg.customer.attrs.city
              /\ ret.list[i].attrs.email = arg.customer.attrs.email
              /\ ret.list[i].attrs.phone = arg.customer.attrs.phone
    /\ (op = "getTrainings after addTraining" /\ Succeeded(reqs[1]))
         => \E i \in 1..Len(ret.list) :
              /\ ret.list[i].attrs.date = arg.training.attrs.date
              /\ ret.list[i].attrs.duration = arg.training.attrs.duration
              /\ ret.list[i].attrs.activity = arg.training.attrs.activity

\* a customer that no record equalled before was created and then listed
C13_CreatedCustomerListed ==
    /\ op = "getCustomers after addCustomer" /\ Succeeded(reqs[1])
    /\ arg.customer.attrs = CustomerOf("ann@x", "2")
    /\ Len(ret.list) = Len(DefaultCustomers) + 1
    /\ ret.list[Len(ret.list)].attrs = arg.customer.attrs

\* C14: the lazy customer loader has at most one fetch in flight per
\* (training self address, customer relation address) pair: no two of the
\* fetches that are pending at the same time ask the same customer address
\* for the same training.
C14_OneFetchInFlight ==
    \A i, j \in 1..Len(pending) : pending[i] = pending[j] => i = j

\* the Customer column of one training was derived twice while the first
\* fetch was still pending
C14_DerivedTwiceWhilePending ==
    /\ Len(pending) = 2
    /\ pending[1].self = pending[2].self
    /\ pending[1].url = pending[2].url
    /\ \E i \in 1..Len(trainings) : FetchesCustomer(trainings[i])
                                     /\ LazyFetch(trainings[i]) = pending[1]

\* C15: when the last response of concurrent lazy fetches has been merged,
\* every training whose fetch succeeded holds its customer in the working
\* set (no merge is lost).  A step that settles the last pending fetch after
\* an earlier fetch succeeded is the end of redundant or concurrent fetches.
C15_LastMergeStep ==
    (Len(pending) = 1 /\ pending' = <<>> /\ loaded # {})
        => \A self \in loaded' :
             \E i \in 1..Len(trainings') :
               /\ trainings'[i].links.present
               /\ trainings'[i].links.self = self
               /\ trainings'[i].customer.present

C15_NoMergeLost == [][C15_LastMergeStep]_vars

\* all responses have arrived, a fetch succeeded, and the working set holds
\* no training at all
C15_WorkingSetEmptied ==
    /\ pending = <<>>
    /\ loaded # {}
    /\ trainings = <<>>

\* the operations of the API client that issue requests
ApiOperations ==
    {"getCustomers", "addCustomer", "findCustomerByData", "updateCustomer",
     "deleteCustomer", "getTrainings", "addTraining", "updateTraining",
     "deleteTraining", "resetDatabase", "deleteCustomer again",
     "deleteTraining again", "getCustomers after addCustomer",
     "getTrainings after addTraining"}

\* the request failed: fetch rejected, the status is not a success status,
\* or the body is not JSON
Failed(req) == req.status \notin 200..299 \/ req.payload = "garbled"

\* C16: every operation of the API client resolves to a value for every
\* outcome of every request it makes (fetch rejects, a non-2xx status, a
\* body that cannot be decoded): the returned promise is never rejected; an
\* operation that issued a failed request and no successful one after it
\* resolves to false, to null or to the empty sequence.
C16_NeverRejects ==
    op \in ApiOperations =>
        /\ ~ret.rejected
        /\ (Len(reqs) > 0 /\ Failed(reqs[Len(reqs)]))
             => (~ret.ok /\ ~ret.found /\ ret.list = <<>>)

\* findCustomerByData got an undecodable body from the lookup by id and a
\* transport error from the collection, and resolved to null
C16_FailuresResolved ==
    /\ op = "findCustomerByData"
    /\ Len(reqs) = 2
    /\ reqs[1].status = 200 /\ reqs[1].payload = "garbled"
    /\ reqs[2].status = 0
    /\ ~ret.found /\ ~ret.rejected

\* C17: getCustomers and getTrainings return the empty sequence whenever the
\* GET fails in transport, is answered with a non-success status, or has a
\* body that cannot be decoded; a non-empty sequence comes only from a
\* successful, decodable answer.
C17_ListsEmptyOnFailure ==
    op \in {"getCustomers", "getTrainings", "getCustomers after addCustomer",
            "getTrainings after addTraining"}
        => /\ Len(reqs) = 1
           /\ Failed(reqs[1]) => ret.list = <<>>
           /\ ret.list # <<>> => Succeeded(reqs[1])

\* getTrainings was answered 500 and returned the empty sequence
C17_ServerErrorListsNothing ==
    /\ op = "getTrainings"
    /\ reqs[1].status = 500
    /\ ret.list = <<>>

\* C18: a successfully decoded collection payload without embedded array
\* (null, no _embedded, _embedded without customers) is normalized to the
\* empty sequence and not to an error.
C18_NoEmbeddedArrayIsEmpty ==
    (/\ op \in {"getCustomers", "getCustomers after addCustomer"}
     /\ reqs[1].status \in 200..299
     /\ reqs[1].payload \in BarePayloads)
        => (ret.list = <<>> /\ ~ret.rejected)

\* getCustomers was answered 200 with a payload whose _embedded holds no
\* customers array, although the backend holds customers
C18_EmbeddedWithoutArray ==
    /\ op = "getCustomers"
    /\ reqs[1].status = 200 /\ reqs[1].payload = "noarray"
    /\ w.cdb # <<>>
    /\ ret.list = <<>> /\ ~ret.rejected

\* C20: a create operation reports success if and only if its POST was
\* answered 201, for addCustomer and for addTraining alike.
C20_CreatedIff201 ==
    op \in {"addCustomer", "addTraining"}
        => /\ Len(reqs) = 1 /\ reqs[1].method = "POST"
           /\ ret.ok <=> reqs[1].status = 201

\* addTraining's POST was answered 200 and addTraining returned true
C20_TrainingAccepted200 ==
    /\ op = "addTraining"
    /\ reqs[1].method = "POST" /\ reqs[1].status = 200
    /\ ret.ok

\* the handlers of the screens that save, delete, add a training or reset
ScreenHandlers ==
    {"CustomerList.handleCustomerSave", "CustomerList.handleDeleteConfirm",
     "CustomerList.handleTrainingSave", "TrainingList.handleTrainingSave",
     "TrainingList.handleDeleteConfirm", "Navigation.handleResetDatabase"}

\* a handler ran and its operation failed
HandlerFailed ==
    /\ op' \in ScreenHandlers /\ calls' = calls + 1
    /\ ~ret'.ok

C19_FailureStep ==
    HandlerFailed => /\ ~ret'.rejected
                     /\ notification'.severity \in {"error", "warning"}

\* C19: every failed operation started from a screen handler (save, delete,
\* add training, reset) ends with a notification shown to the user and never
\* with an unhandled promise rejection.
C19_FailureIsNotified == [][C19_FailureStep]_vars

\* TrainingList.handleDeleteConfirm deleted by numeric id, its fetch
\* rejected, and the handler's promise was rejected with nothing notified
C19_DeleteRejectedUnnotified ==
    /\ op = "TrainingList.handleDeleteConfirm"
    /\ HasId(arg.training)
    /\ Len(reqs) = 1 /\ reqs[1].method = "DELETE" /\ reqs[1].status = 0
    /\ ret.rejected
    /\ notification = NoNotification
    /\ tlOpen = "delete"

\* C21: every customer produced by getCustomers carries the three relation
\* address fields (self, customer, trainings), each a string: a relation
\* absent from the payload item is the empty string, never undefined.
C21_LinkFieldsPresent ==
    op \in {"getCustomers", "getCustomers after addCustomer"} =>
        \A i \in 1..Len(ret.list) :
            /\ ret.list[i].links.present
            /\ IsString(ret.list[i].links.self)
            /\ IsString(ret.list[i].links.customer)
            /\ IsString(ret.list[i].links.other)
            /\ ~reqs[1].items[i].hal.present
                 => /\ ret.list[i].links.self = EmptyStr
                    /\ ret.list[i].links.customer = EmptyStr
                    /\ ret.list[i].links.other = EmptyStr

\* getCustomers listed a customer whose payload item has no _links
C21_ItemWithoutLinksListed ==
    /\ op = "getCustomers"
    /\ \E i \in 1..Len(ret.list) :
         /\ ~reqs[1].items[i].hal.present
         /\ ret.list[i].links.present
         /\ ret.list[i].links.self = EmptyStr

\* the list a screen makes of the answer to its list GET
CustomersOf(req) ==
    IF Succeeded(req) THEN MapSeq(req.items, NormalizeCustomer) ELSE <<>>

TrainingsOf(req) == IF Succeeded(req) THEN req.items ELSE <<>>

\* a create, update or delete handler of the customer list or of the
\* training list ran
MutationRan ==
    /\ op' \in {"CustomerList.handleCustomerSave", "CustomerList.handleDeleteConfirm",
                "TrainingList.handleTrainingSave", "TrainingList.handleDeleteConfirm"}
    /\ calls' = calls + 1

C22_RefetchStep ==
    MutationRan =>
        IF ret'.ok
        THEN /\ notification'.severity = "success"
             /\ Len(reqs') >= 2
             /\ reqs'[Len(reqs')].method = "GET"
             /\ reqs'[Len(reqs')].url = ENDPOINTS.customers
             /\ IF op' \in {"CustomerList.handleCustomerSave",
                            "CustomerList.handleDeleteConfirm"}
                THEN customers' = CustomersOf(reqs'[Len(reqs')])
                ELSE /\ Len(reqs') >= 3
                     /\ reqs'[Len(reqs') - 1].method = "GET"
                     /\ reqs'[Len(reqs') - 1].url = ENDPOINTS.getTrainings
                     /\ trainings' = TrainingsOf(reqs'[Len(reqs') - 1])
                     /\ tlCustomers' = CustomersOf(reqs'[Len(reqs')])
        ELSE /\ customers' = customers
             /\ trainings' = trainings
             /\ tlCustomers' = tlCustomers

LazyFetchSettled ==
    /\ op' = "fetchCustomerForTraining"
    /\ Len(pending') < Len(pending)

C23_FailedFetchStep ==
    (LazyFetchSettled /\ Failed(reqs'[1]))
        => /\ ~ret'.rejected
           /\ trainings' = trainings
           /\ \A i \in 1..Len(trainings') :
                (trainings'[i].links.present /\ trainings'[i].links.self = arg'.str)
                    => trainings'[i].customer = trainings[i].customer

\* C23: when the lazy customer fetch for a training fails (transport error
\* or non-success status), nothing is raised, the training working set is
\* left as it was, and the training's customer field stays as it was.
C23_FailedFetchLeavesSet == [][C23_FailedFetchStep]_vars

\* the lazy fetch for a listed training without customer was answered 500,
\* and the training is still listed without customer
C23_FetchFailedCustomerAbsent ==
    /\ op = "fetchCustomerForTraining"
    /\ reqs[1].status = 500
    /\ ~ret.rejected
    /\ \E i \in 1..Len(trainings) :
         /\ trainings[i].links.present /\ trainings[i].links.self = arg.str
         /\ ~trainings[i].customer.present

\* a lazy customer fetch resolved and its result was applied
LazyFetchMerged == LazyFetchSettled /\ ret'.ok

C24_MergeStep ==
    LazyFetchMerged =>
        /\ Len(trainings') = Len(trainings)
        /\ \A i \in 1..Len(trainings) :
             IF trainings[i].links.present /\ trainings[i].links.self = arg'.str
             THEN trainings'[i] =
                    [trainings[i] EXCEPT !.customer = [present |-> TRUE,
                                                       value |-> reqs'[1].items[1]]]
             ELSE trainings'[i] = trainings[i]

\* C24: the lazy-loader merge is keyed by the training's own self address:
\* the fetched customer is attached to exactly the trainings of the working
\* set whose self address is that of the training the fetch was started
\* for, and every other training of the working set is left unchanged.
C24_MergeKeyedBySelf == [][C24_MergeStep]_vars

\* a lazy fetch resolved with the customer document and the working set
\* holds neither the training it was started for nor any other
C24_MergedIntoNothing ==
    /\ op = "fetchCustomerForTraining" /\ ret.ok
    /\ Succeeded(reqs[1]) /\ Len(reqs[1].items) = 1
    /\ \A i \in 1..Len(trainings) : trainings[i].links.self # arg.str
    /\ trainings = <<>>

C28_MergeStep ==
    LazyFetchMerged =>
        /\ Len(trainings') = Len(trainings)
        /\ \A i \in 1..Len(trainings) :
             /\ trainings'[i].id = trainings[i].id
             /\ trainings'[i].attrs = trainings[i].attrs
             /\ trainings'[i].links = trainings[i].links
             /\ trainings'[i].customer # trainings[i].customer
                  => (trainings[i].links.present
                      /\ trainings[i].links.self = arg'.str)

\* C28: right after fetchCustomerForTraining applies its result, the working
\* set holds the same trainings in the same order as right before, differing
\* only in the customer field of the matched training.
C28_MergeKeepsTrainings == [][C28_MergeStep]_vars

\* the working set was fetched twice and the result of a lazy fetch then
\* left it empty, although the backend holds trainings
C28_RefetchedSetLost ==
    /\ op = "fetchCustomerForTraining" /\ ret.ok
    /\ calls = 2
    /\ w.tdb # <<>>
    /\ trainings = <<>>

----------------------------------------------------------------------------
(* Overlapping list fetches *)

\* the list a screen shows, after the step
WorkingSetNext(s) ==
    CASE s = "CustomerList" -> customers'
      [] s = "TrainingList" -> trainings'
      [] s = "TrainingCalendar" -> calTrainings'
      [] OTHER -> statTrainings'

\* C25: when the result of a list fetch arrives, the other fetches of the
\* screen stay in flight (none is cancelled) and the working set of the
\* screen becomes the whole result that arrived, so that after the last
\* arrival it equals the result that arrived last.
C25_LastAppliedWins ==
    [][Len(fetching') < Len(fetching) =>
         \E k \in 1..Len(fetching) :
            /\ fetching[k].served
            /\ fetching' = DropAt(fetching, k)
            /\ WorkingSetNext(fetching[k].screen) = fetching[k].list
            /\ fetching[k].screen = "TrainingList" =>
                   tlCustomers' = fetching[k].customers
            /\ ret'.list = fetching[k].list]_vars

\* C25 witness: a calendar fetch arrived and replaced the working set while
\* another fetch of the calendar, answered with a different list, was in
\* flight.
C25_ArrivedDuringAnother ==
    /\ op = "TrainingCalendar.fetchTrainings settled"
    /\ Len(fetching) = 1
    /\ fetching[1].served
    /\ fetching[1].list # calTrainings
    /\ calTrainings = ret.list
    /\ calTrainings # <<>>

\* C30: the loading flag of a screen is true exactly while a list fetch of
\* the screen is in flight.
C30_LoadingWhileInFlight ==
    \A s \in Screens :
        isLoading[s] <=> \E k \in 1..Len(fetching) : fetching[k].screen = s

\* C30 witness: the first of two overlapping calendar fetches arrived, the
\* second is in flight, and the loading flag of the calendar is false.
C30_FlagClearedWhilePending ==
    /\ op = "TrainingCalendar.fetchTrainings settled"
    /\ Len(fetching) = 1
    /\ fetching[1].screen = "TrainingCalendar"
    /\ ~isLoading["TrainingCalendar"]

----------------------------------------------------------------------------
(* Saving an edited training *)

\* the handler ran on a selected training
C26_SaveStep ==
    /\ op' = "TrainingList.handleTrainingSave"
    /\ selectedTraining.present

\* n is the identifier of training t: its numeric id, or else the last
\* segment of its self address
C26_Identifies(t, n) ==
    IF HasId(t) THEN t.id[1] = n
    ELSE t.links.self \in {TrainingUrlOf(API_BASE_URL, n), TrainingUrlOf(ALT_BASE_URL, n)}

C26_Writes(rs) == {i \in 1..Len(rs) : rs[i].method \in {"PUT", "POST", "DELETE"}}

C26_PutBySelfAddress ==
    /\ op = "TrainingList.handleTrainingSave"
    /\ selectedTraining.present
    /\ ~HasId(selectedTraining.value)
    /\ Len(reqs) > 1
    /\ reqs[1].method = "PUT"
    /\ reqs[1].url = TrainingUrlOf(API_BASE_URL, 2)
    /\ reqs[1].status = 200

----------------------------------------------------------------------------
(* updateCustomer writes once *)

C27_Writes == {i \in 1..Len(reqs) : reqs[i].method \in {"PUT", "POST"}}

\* C27: one call of updateCustomer issues at most one PUT or POST; when its
\* PUT is answered with a non-success status or fails in transport it
\* returns false and sends no POST.
C27_OneWritePerUpdate ==
    op = "updateCustomer" =>
        /\ Cardinality(C27_Writes) <= 1
        /\ \A i \in 1..Len(reqs) :
              (reqs[i].method = "PUT" /\ reqs[i].status \notin 200..299)
                  => /\ ~ret.ok
                     /\ \A j \in 1..Len(reqs) : reqs[j].method # "POST"

\* C27 witness: the PUT to the record found by matching data was answered
\* with an error status; updateCustomer returned false after it.
C27_FailedPutNotCreated ==
    /\ op = "updateCustomer"
    /\ Len(reqs) = 2
    /\ reqs[1].method = "GET"
    /\ reqs[2].method = "PUT" /\ reqs[2].status = 500
    /\ ~ret.ok

----------------------------------------------------------------------------
(* deleteCustomer deletes the record it looked up *)

\* the self addresses of the records that the lookups of the logged call
\* located for customer c: the record answered to the direct GET
\* base/customers/<id>, or the first record of the answered collection with
\* c's firstname, lastname and email
C29_Located(c) ==
    { reqs[i].items[1].hal.self :
        i \in { k \in 1..Len(reqs) :
                  /\ reqs[k].method = "GET" /\ Succeeded(reqs[k])
                  /\ reqs[k].url # ENDPOINTS.customers
                  /\ Len(reqs[k].items) = 1 } }
    \cup
    UNION { { reqs[i].items[j].hal.self :
                j \in { n \in 1..Len(reqs[i].items) :
                          /\ Matches(reqs[i].items[n], c)
                          /\ \A m \in 1..(n - 1) : ~Matches(reqs[i].items[m], c) } } :
            i \in { k \in 1..Len(reqs) :
                      /\ reqs[k].method = "GET" /\ Succeeded(reqs[k])
                      /\ reqs[k].url = ENDPOINTS.customers } }

C29_Deletes == {i \in 1..Len(reqs) : reqs[i].method = "DELETE"}

\* C29: deleteCustomer on a customer with an empty self address whose
\* record a lookup located (by the direct GET or by the attribute match)
\* issues exactly one DELETE, to the self address of that record, and
\* returns whether the DELETE was answered with a success status.
C29_LocatedIsDeleted ==
    (op = "deleteCustomer" /\ ~arg.isString /\ ~Truthy(arg.customer.links.self))
        => \A self \in C29_Located(arg.customer) :
              Truthy(self)
                 => /\ C29_Deletes = {Len(reqs)}
                    /\ reqs[Len(reqs)].url = self
                    /\ ret.ok <=> reqs[Len(reqs)].status \in 200..299

\* the direct GET base/customers/1 was answered with record 1 and its self
\* address; deleteCustomer sent no DELETE and returned false
C29_DirectLookupNotDeleted ==
    /\ op = "deleteCustomer"
    /\ ~arg.isString
    /\ arg.customer.links.customer = CustomerUrlOf(API_BASE_URL, 1)
    /\ Len(reqs) = 1
    /\ reqs[1].method = "GET" /\ reqs[1].url = CustomerUrlOf(API_BASE_URL, 1)
    /\ Succeeded(reqs[1])
    /\ Truthy(reqs[1].items[1].hal.self)
    /\ ~ret.ok

\* the record located by the attribute match was deleted
C29_MatchedIsDeleted ==
    /\ op = "deleteCustomer"
    /\ ~arg.isString
    /\ ~Truthy(arg.customer.links.customer)
    /\ Len(reqs) = 2
    /\ reqs[1].url = ENDPOINTS.customers /\ Succeeded(reqs[1])
    /\ reqs[2].method = "DELETE" /\ reqs[2].status = 204
    /\ ret.ok

====
